---- MODULE Spec2Model ----
(***************************************************************************)
(* Bayesian-optimisation state of the coffee tracker: the per-pair store   *)
(* kept by BOService (js/bayesian/boService.js) through BOStorage          *)
(* (js/bayesian/kernels.js), and the repository operations                 *)
(* (js/data/repository.js) that feed and invalidate it.                    *)
(*                                                                         *)
(* Conventions.  A JS object is a function whose DOMAIN is the set of keys *)
(* it has; "undefined"/"null" is absence from the DOMAIN.  A rating is the *)
(* empty sequence when the run is unrated and <<r>> when it is r.  Reals   *)
(* are exact fractions <<numerator, denominator>> in lowest terms.         *)
(***************************************************************************)
EXTENDS Integers, Sequences, FiniteSets, TLC

(* ------------------------------ bounds -------------------------------- *)
MaxClock == 1          \* values Date.now() takes: 0..MaxClock
MaxRuns == 3           \* runs RunRepository.create makes in one behaviour
MaxObsCfg == 2         \* largest maxObservations a config carries
MaxThresholdCfg == 2
MaxCandidates == 3   \* largest minRunsThreshold a config carries

(* ------------------------------ domains ------------------------------- *)
\* ids are character sequences; generateUUID never emits the '_' separator
BeanIds == {<<"b1">>, <<"b2">>}
MachineIds == {<<"m1">>, <<"m2">>}
RunIds == 1..MaxRuns

SLIDER == "slider"
NUMBER == "number"
TEXT == "text"
DROPDOWN == "dropdown"

PSlider == [id |-> "p1", type |-> SLIDER, min |-> 0, max |-> 2, step |-> 1, options |-> <<>>]
PNumber == [id |-> "p2", type |-> NUMBER, min |-> 0, max |-> 0, step |-> 0, options |-> <<>>]
PText == [id |-> "t1", type |-> TEXT, min |-> 0, max |-> 0, step |-> 0, options |-> <<>>]
PBadSlider == [id |-> "p1", type |-> SLIDER, min |-> 2, max |-> 2, step |-> 1, options |-> <<>>]

PDropdown == [id |-> "d1", type |-> DROPDOWN, min |-> 0, max |-> 0, step |-> 0, options |-> <<"a", "b", "c">>]

\* a slider whose minimum is not a multiple of its step, one whose range is
\* not a multiple of its step, and a dropdown with a single option
PSliderOffset == [id |-> "p3", type |-> SLIDER, min |-> 1, max |-> 9, step |-> 2, options |-> <<>>]
PSliderCoarse == [id |-> "p4", type |-> SLIDER, min |-> 0, max |-> 7, step |-> 4, options |-> <<>>]
PDropdownSingle == [id |-> "d2", type |-> DROPDOWN, min |-> 0, max |-> 0, step |-> 0, options |-> <<"a">>]

SchemaSlider == <<PSlider>>
SchemaFull == <<PSlider, PText, PNumber, PDropdown>>
SchemaMixed == <<PSlider, PText, PNumber>>
SchemaText == <<PText>>
SchemaNone == <<>>
SchemaInvalid == <<PBadSlider>>
Schemas == {SchemaSlider, SchemaMixed, SchemaText}

NoRating == <<>>
Ratings == {NoRating, <<1>>, <<10>>}

\* parameterValues objects handed to the service: a value for every
\* optimizable parameter of SchemaMixed, or p2 left out
ParamValueMaps ==
  { [i \in S |-> IF i = "p1" THEN 1 ELSE 3] : S \in {{"p1", "p2"}, {"p1"}} }

\* ratings a caller of updateWithRun may pass: those of Ratings and two
\* numbers outside RATING_MIN..RATING_MAX
AnyRatings == Ratings \cup {<<0>>, <<11>>}

KernelLengthScales == {3, 5}     \* tenths
Configs ==
  [ minRunsThreshold : 1..MaxThresholdCfg,
    maxObservations : 1..MaxObsCfg,
    kernelLengthScale : KernelLengthScales,
    kernelOutputScale : {10},
    kernelNoise : {1},
    numberParamPadding : {2},
    numCandidates : {100} ]

\* values Math.random() gives a coordinate of a candidate point: [0, 1)
UnitSamples == {<<0, 1>>, <<1, 4>>, <<3, 4>>, <<99, 100>>}

ConfigKeys == {"minRunsThreshold", "maxObservations", "kernelLengthScale"}

(* ------------------------------ helpers ------------------------------- *)
RECURSIVE Gcd(_, _)
Gcd(a, b) == IF b = 0 THEN a ELSE Gcd(b, a % b)

Abs(x) == IF x < 0 THEN -x ELSE x

\* the real n/d (d # 0) in lowest terms with a positive denominator
Frac(n, d) ==
  LET g == Gcd(Abs(n), Abs(d))
      s == IF d < 0 THEN -1 ELSE 1
  IN <<(s * n) \div g, (s * d) \div g>>

Min(a, b) == IF a < b THEN a ELSE b
Max(a, b) == IF a > b THEN a ELSE b

\* Math.round of the fraction f (positive denominator): floor(f + 1/2)
Round(f) == (2 * f[1] + f[2]) \div (2 * f[2])

SetMin(S) == CHOOSE x \in S : \A y \in S : x <= y
SetMax(S) == CHOOSE x \in S : \A y \in S : x >= y

Has(obj, k) == k \in DOMAIN obj

\* String.prototype.endsWith on character sequences
EndsWith(s, suffix) ==
  /\ Len(suffix) <= Len(s)
  /\ SubSeq(s, Len(s) - Len(suffix) + 1, Len(s)) = suffix

\* Array.prototype.slice(-n): the last n elements; slice(-0) is slice(0),
\* the whole array
SliceLast(s, n) ==
  IF n <= 0 \/ n >= Len(s) THEN s ELSE SubSeq(s, Len(s) - n + 1, Len(s))

(* ------------------------------ BOStorage ----------------------------- *)
BOStorage_has(store, key) == key \in DOMAIN store

BOStorage_set(store, key, state) ==
  [k \in (DOMAIN store) \cup {key} |-> IF k = key THEN state ELSE store[k]]

\* a remove that empties the entry and keeps the key
BOStorage_remove_blank(store, key) ==
  IF key \in DOMAIN store
  THEN [store EXCEPT ![key].observations = <<>>]
  ELSE store

BOStorage_remove(store, key) ==
  [k \in (DOMAIN store) \ {key} |-> store[k]]

BOStorage_keys(store) == DOMAIN store

(* ------------------------------ GaussianProcess ---------------------- *)
\* new GP(kernel, noise): nothing trained, nothing cached (<<>> for null)
newGP(outputScale, noise) ==
  [ outputScale |-> outputScale, noise |-> noise,
    X_train |-> <<>>, y_train |-> <<>>, K_inv |-> <<>>, alpha |-> <<>> ]

\* K + noise * I for N copies of one point, in hundredths: the diagonal
\* and the off-diagonal value, jitter being the hundredths added so far
kernelMatrix(outputScale, noise, jitter) ==
  [ diag |-> 10 * (outputScale + noise) + jitter, off |-> 10 * outputScale ]

\* _cholesky throws 'Matrix not positive definite' when a pivot is <= 0; for
\* N <= 2 the pivots are a11 and a22 - a21^2 / a11
choleskyThrows(N, K) ==
  \/ K.diag <= 0
  \/ N = 2 /\ K.diag * K.diag - K.off * K.off <= 0

\* a fit that lets the first Cholesky failure reach the caller
gpFit_noRetry(g, X, y) ==
  IF Len(X) # Len(y) \/ Len(X) = 0
  THEN [gp |-> g, outcome |-> "invalidInput", attempts |-> 0]
  ELSE LET K == kernelMatrix(g.outputScale, g.noise, 0)
           trained == [g EXCEPT !.X_train = X, !.y_train = y]
       IN IF ~choleskyThrows(Len(X), K)
          THEN [ gp |-> [trained EXCEPT !.K_inv = <<K>>, !.alpha = <<K>>],
                 outcome |-> "ok", attempts |-> 1 ]
          ELSE [gp |-> trained, outcome |-> "notPositiveDefinite", attempts |-> 1]

\* GP.fit: the object afterwards, how the call ended and the number of
\* Cholesky decompositions attempted; K_inv and alpha are represented by the
\* matrix they were computed from
gpFit(g, X, y) ==
  IF Len(X) # Len(y) \/ Len(X) = 0
  THEN [gp |-> g, outcome |-> "invalidInput", attempts |-> 0]
  ELSE LET K == kernelMatrix(g.outputScale, g.noise, 0)
           jittered == kernelMatrix(g.outputScale, g.noise, 1)
           trained == [g EXCEPT !.X_train = X, !.y_train = y]
       IN IF ~choleskyThrows(Len(X), K)
          THEN [ gp |-> [trained EXCEPT !.K_inv = <<K>>, !.alpha = <<K>>],
                 outcome |-> "ok", attempts |-> 1 ]
          ELSE IF ~choleskyThrows(Len(X), jittered)
          THEN [ gp |-> [trained EXCEPT !.K_inv = <<jittered>>, !.alpha = <<jittered>>],
                 outcome |-> "ok", attempts |-> 2 ]
          ELSE [gp |-> trained, outcome |-> "notPositiveDefinite", attempts |-> 2]

\* GP.predict: "stateError" for 'Must call fit() before predict()',
\* "typeError" when alpha is still null after a fit that failed, else "ok"
gpPredict(g) ==
  IF g.X_train = <<>> THEN "stateError"
  ELSE IF g.alpha = <<>> THEN "typeError"
  ELSE "ok"

(* ------------------------------ AcquisitionFunctions ------------------ *)
\* predicted means, predicted variances (perfect squares and a negative
\* value, so that the square root stays an integer) and exploration factors
MeanValues == {0, 1, 2}
VarianceValues == {-1, 0, 4}
ExplorationFactors == {0, 1}

\* Math.sqrt on the perfect squares of VarianceValues
Sqrt(n) == CHOOSE r \in 0..n : r * r = n

ucb(mean, variance, exploration) == mean + exploration * Sqrt(Max(0, variance))

\* a scan that moves to a later candidate on a tie: ucbValue >= maxUCB
RECURSIVE findMaxUCBFrom_lastOnTie(_, _, _, _, _, _)
findMaxUCBFrom_lastOnTie(means, variances, exploration, i, maxUCB, maxIndex) ==
  IF i >= Len(means) THEN maxIndex
  ELSE LET ucbValue == ucb(means[i + 1], variances[i + 1], exploration)
       IN IF maxUCB = <<>> \/ ucbValue >= maxUCB[1]
          THEN findMaxUCBFrom_lastOnTie(means, variances, exploration, i + 1, <<ucbValue>>, i)
          ELSE findMaxUCBFrom_lastOnTie(means, variances, exploration, i + 1, maxUCB, maxIndex)

\* the loop of findMaxUCB from index i on (0-based); maxUCB is <<>> for
\* -Infinity
RECURSIVE findMaxUCBFrom(_, _, _, _, _, _)
findMaxUCBFrom(means, variances, exploration, i, maxUCB, maxIndex) ==
  IF i >= Len(means) THEN maxIndex
  ELSE LET ucbValue == ucb(means[i + 1], variances[i + 1], exploration)
       IN IF maxUCB = <<>> \/ ucbValue > maxUCB[1]
          THEN findMaxUCBFrom(means, variances, exploration, i + 1, <<ucbValue>>, i)
          ELSE findMaxUCBFrom(means, variances, exploration, i + 1, maxUCB, maxIndex)

\* "throw" for the 'Empty candidates array' error, the 0-based index otherwise
findMaxUCB(means, variances, exploration) ==
  IF Len(means) = 0 THEN "throw"
  ELSE findMaxUCBFrom(means, variances, exploration, 0, <<>>, 0)

(* ------------------------------ BOService ----------------------------- *)
getOptimizableParameters(parameters) ==
  SelectSeq(parameters, LAMBDA p : p.type \in {SLIDER, NUMBER, DROPDOWN})

makeKey(beanId, machineId) == beanId \o <<"_">> \o machineId

\* a state built with the documented default length scale, whatever the config
freshState_defaultKernel(optimizableParams, cfg, t) ==
  [ observations |-> <<>>,
    parameterMetadata |-> optimizableParams,
    gpHyperparameters |-> [ lengthScale |-> 3,
                            outputScale |-> cfg.kernelOutputScale,
                            noise |-> cfg.kernelNoise ],
    lastUpdated |-> t ]

\* the state object initializeOptimizer builds
freshState(optimizableParams, cfg, t) ==
  [ observations |-> <<>>,
    parameterMetadata |-> optimizableParams,
    gpHyperparameters |-> [ lengthScale |-> cfg.kernelLengthScale,
                            outputScale |-> cfg.kernelOutputScale,
                            noise |-> cfg.kernelNoise ],
    lastUpdated |-> t ]

\* an initializeOptimizer without the check for an empty optimizable subset
initializeOptimizer_noEmptyCheck(store, machs, cfg, t, beanId, machineId) ==
  IF ~Has(machs, machineId)
  THEN [store |-> store, ret |-> "throw"]
  ELSE [ store |-> BOStorage_set(store, makeKey(beanId, machineId),
                                 freshState(getOptimizableParameters(machs[machineId]),
                                            cfg, t)),
         ret |-> "true" ]

\* ret is "throw" (machine not found), "false" or "true"
initializeOptimizer(store, machs, cfg, t, beanId, machineId) ==
  IF ~Has(machs, machineId)
  THEN [store |-> store, ret |-> "throw"]
  ELSE LET optimizableParams == getOptimizableParameters(machs[machineId])
       IN IF Len(optimizableParams) = 0
          THEN [store |-> store, ret |-> "false"]
          ELSE [ store |-> BOStorage_set(store, makeKey(beanId, machineId),
                                         freshState(optimizableParams, cfg, t)),
                 ret |-> "true" ]

\* 0-based Array.prototype.indexOf, -1 when absent
IndexOf(seq, v) ==
  IF \E i \in 1..Len(seq) : seq[i] = v
  THEN (CHOOSE i \in 1..Len(seq) : seq[i] = v /\ \A j \in 1..(i - 1) : seq[j] # v) - 1
  ELSE -1

\* raw values of parameter id held by the observations of a state
historyValues(observations, id) ==
  { observations[i].rawValues[id] :
      i \in {j \in 1..Len(observations) : Has(observations[j].rawValues, id)} }

\* a normalisation of number parameters against the history alone, the
\* value being encoded left out of the range
normalizeParameter_historyOnly(value, param, observations, cfg) ==
  CASE param.type = SLIDER ->
         Frac(value - param.min, param.max - param.min)
    [] param.type = NUMBER ->
         LET allValues == historyValues(observations, param.id)
         IN IF allValues = {} THEN Frac(1, 2)
            ELSE LET lo == SetMin(allValues)
                     hi == SetMax(allValues)
                     range == hi - lo
                 IN IF range > 0
                    THEN Frac(10 * (value - lo) + range * cfg.numberParamPadding,
                              range * (10 + 2 * cfg.numberParamPadding))
                    ELSE Frac(value - lo + 1, 2)
    [] param.type = DROPDOWN ->
         LET idx == IndexOf(param.options, value)
         IN IF idx = -1 THEN Frac(0, 1)
            ELSE IF Len(param.options) = 1 THEN Frac(0, 1)
            ELSE Frac(idx, Len(param.options) - 1)
    [] OTHER -> Frac(1, 2)

\* an encoding of dropdown options by idx / options.length
normalizeParameter_byLength(value, param, observations, cfg) ==
  CASE param.type = SLIDER ->
         Frac(value - param.min, param.max - param.min)
    [] param.type = NUMBER ->
         LET allValues == historyValues(observations, param.id) \cup {value}
             lo == SetMin(allValues)
             hi == SetMax(allValues)
             range == hi - lo
         IN IF range > 0
            THEN Frac(10 * (value - lo) + range * cfg.numberParamPadding,
                      range * (10 + 2 * cfg.numberParamPadding))
            ELSE Frac(1, 2)
    [] param.type = DROPDOWN ->
         LET idx == IndexOf(param.options, value)
         IN IF idx = -1 THEN Frac(0, 1)
            ELSE Frac(idx, Len(param.options))
    [] OTHER -> Frac(1, 2)

normalizeParameter(value, param, observations, cfg) ==
  CASE param.type = SLIDER ->
         Frac(value - param.min, param.max - param.min)
    [] param.type = NUMBER ->
         LET allValues == historyValues(observations, param.id) \cup {value}
             lo == SetMin(allValues)
             hi == SetMax(allValues)
             range == hi - lo
         IN IF range > 0
            THEN Frac(10 * (value - lo) + range * cfg.numberParamPadding,
                      range * (10 + 2 * cfg.numberParamPadding))
            ELSE Frac(1, 2)
    [] param.type = DROPDOWN ->
         LET idx == IndexOf(param.options, value)
         IN IF idx = -1 THEN Frac(0, 1)
            ELSE IF Len(param.options) = 1 THEN Frac(0, 1)
            ELSE Frac(idx, Len(param.options) - 1)
    [] OTHER -> Frac(1, 2)

normalizeRating(rating) == Frac(rating - 1, 9)

\* a conversion that skips a metadata parameter the machine no longer has
\* instead of giving up
runToObservation_skipMissing(run, machineParams, metadata, state, cfg) ==
  IF \E i \in 1..Len(metadata) : ~Has(run.parameterValues, metadata[i].id)
  THEN <<>>
  ELSE LET kept == SelectSeq(metadata,
                     LAMBDA pm : \E j \in 1..Len(machineParams) :
                                    machineParams[j].id = pm.id)
       IN << [ parameters |->
                 [ i \in 1..Len(kept) |->
                     LET param == machineParams[
                           CHOOSE j \in 1..Len(machineParams) :
                             /\ machineParams[j].id = kept[i].id
                             /\ \A l \in 1..(j - 1) : machineParams[l].id # kept[i].id]
                     IN normalizeParameter(run.parameterValues[kept[i].id], param,
                                           state.observations, cfg) ],
               rawValues |->
                 [ id \in {kept[i].id : i \in 1..Len(kept)} |->
                     run.parameterValues[id] ],
               rating |-> normalizeRating(run.rating[1]) ] >>

\* <<>> for null, <<observation>> otherwise
runToObservation(run, machineParams, metadata, state, cfg) ==
  IF \E i \in 1..Len(metadata) :
        \/ ~Has(run.parameterValues, metadata[i].id)
        \/ \A j \in 1..Len(machineParams) : machineParams[j].id # metadata[i].id
  THEN <<>>
  ELSE << [ parameters |->
              [ i \in 1..Len(metadata) |->
                  LET param == machineParams[
                        CHOOSE j \in 1..Len(machineParams) :
                          /\ machineParams[j].id = metadata[i].id
                          /\ \A l \in 1..(j - 1) : machineParams[l].id # metadata[i].id]
                  IN normalizeParameter(run.parameterValues[metadata[i].id], param,
                                        state.observations, cfg) ],
            rawValues |->
              [ id \in {metadata[i].id : i \in 1..Len(metadata)} |->
                  run.parameterValues[id] ],
            rating |-> normalizeRating(run.rating[1]) ] >>

\* a cap that keeps the head of the list: slice(0, maxObservations)
capObservations_keepOldest(observations, maxObservations) ==
  IF Len(observations) > maxObservations
  THEN SubSeq(observations, 1, maxObservations)
  ELSE observations

\* the tail cap applied after the push
capObservations(observations, maxObservations) ==
  IF Len(observations) > maxObservations
  THEN SliceLast(observations, maxObservations)
  ELSE observations

\* a push that also brings the state's kernel values up to the config
withObservation_refreshKernel(state, observation, cfg, t) ==
  [state EXCEPT
     !.observations = capObservations(Append(@, observation), cfg.maxObservations),
     !.gpHyperparameters = [ lengthScale |-> cfg.kernelLengthScale,
                             outputScale |-> cfg.kernelOutputScale,
                             noise |-> cfg.kernelNoise ],
     !.lastUpdated = t]

\* the state updateWithRun writes back: the observation pushed, the list
\* capped, lastUpdated set; every other field as it was read
withObservation(state, observation, cfg, t) ==
  [state EXCEPT
     !.observations = capObservations(Append(@, observation), cfg.maxObservations),
     !.lastUpdated = t]

\* updateWithRun past its rating check.
\* outcome: "noMachine", "notInitialized", "rejected", "appended";
\* created: the call wrote a fresh state through initializeOptimizer
updateRatedRun(store, machs, cfg, t, beanId, machineId, run) ==
  IF ~Has(machs, machineId)
  THEN [store |-> store, outcome |-> "noMachine", created |-> FALSE]
  ELSE
    LET key == makeKey(beanId, machineId)
        existed == BOStorage_has(store, key)
        init == initializeOptimizer(store, machs, cfg, t, beanId, machineId)
    IN IF ~existed /\ init.ret # "true"
       THEN [store |-> init.store, outcome |-> "notInitialized", created |-> FALSE]
       ELSE
         LET store1 == IF existed THEN store ELSE init.store
             state == store1[key]
             observation == runToObservation(run, machs[machineId],
                                             state.parameterMetadata, state, cfg)
         IN IF observation = <<>>
            THEN [store |-> store1, outcome |-> "rejected", created |-> ~existed]
            ELSE [ store |->
                     BOStorage_set(store1, key, withObservation(state, observation[1], cfg, t)),
                   outcome |-> "appended",
                   created |-> ~existed ]

\* an updateWithRun that tests the rating only after the lazy initialisation
updateWithRun_lateRatingCheck(store, machs, cfg, t, beanId, machineId, run) ==
  IF run.rating = NoRating
  THEN [ store |-> IF BOStorage_has(store, makeKey(beanId, machineId))
                   THEN store
                   ELSE initializeOptimizer(store, machs, cfg, t, beanId, machineId).store,
         outcome |-> "unrated", created |-> FALSE ]
  ELSE updateRatedRun(store, machs, cfg, t, beanId, machineId, run)

\* outcome "unrated": the run has no rating, nothing is read or written
updateWithRun(store, machs, cfg, t, beanId, machineId, run) ==
  IF run.rating = NoRating
  THEN [store |-> store, outcome |-> "unrated", created |-> FALSE]
  ELSE updateRatedRun(store, machs, cfg, t, beanId, machineId, run)

\* _generateCandidates: the points of [0, 1)^numDims a candidate can be
Candidates(numDims) == [1..numDims -> UnitSamples]

\* GP.fit throws when the first Cholesky pivot, outputScale + noise (tenths),
\* is not positive even after the 0.01 jitter of the retry; later pivots are
\* positive whenever the first is, the RBF kernel matrix being positive
\* semi-definite
gpFitThrows(gpHyperparameters) ==
  10 * (gpHyperparameters.outputScale + gpHyperparameters.noise) + 1 <= 0

denormalizeParameter(normalized, param, observations, cfg) ==
  CASE param.type = SLIDER ->
         LET step == IF param.step = 0 THEN 1 ELSE param.step
             \* value = min + normalized * (max - min), over normalized[2]
             valueNum == param.min * normalized[2]
                           + normalized[1] * (param.max - param.min)
             rounded == Round(Frac(valueNum, normalized[2] * step)) * step
         IN Max(param.min, Min(param.max, rounded))
    [] param.type = NUMBER ->
         LET allValues == historyValues(observations, param.id)
         IN IF allValues # {}
            THEN LET lo == SetMin(allValues)
                     hi == SetMax(allValues)
                     range == hi - lo
                     \* minVal and maxVal - minVal in tenths
                     minVal == IF range > 0
                               THEN 10 * lo - range * cfg.numberParamPadding
                               ELSE 10 * (lo - 1)
                     span == IF range > 0
                             THEN 10 * range + 2 * range * cfg.numberParamPadding
                             ELSE 20
                     \* value * 100 = 10 * (minVal + normalized * span)
                     hundredths == Round(Frac(10 * (minVal * normalized[2]
                                                      + normalized[1] * span),
                                              normalized[2]))
                 IN Frac(hundredths, 100)
            ELSE Frac(0, 1)
    [] param.type = DROPDOWN ->
         IF Len(param.options) = 0 THEN ""
         ELSE LET idx == Round(Frac(normalized[1] * (Len(param.options) - 1),
                                    normalized[2]))
              IN param.options[Max(0, Min(idx, Len(param.options) - 1)) + 1]
    [] OTHER -> ""

\* a _suggestionToRun without the pass that fills in the text parameters
suggestionToRun_noText(normalizedParams, machineParams, beanId, machineId, metadata, state, cfg) ==
  LET machineIds == {machineParams[j].id : j \in 1..Len(machineParams)}
      found == {i \in 1..Len(metadata) : metadata[i].id \in machineIds}
      paramOf(id) == machineParams[CHOOSE j \in 1..Len(machineParams) :
                        /\ machineParams[j].id = id
                        /\ \A l \in 1..(j - 1) : machineParams[l].id # id]
      indexOf(id) == CHOOSE i \in found : metadata[i].id = id
  IN [ id |-> "ai-suggestion",
       beanId |-> beanId,
       machineId |-> machineId,
       parameterValues |->
         [ id \in {metadata[i].id : i \in found} |->
             denormalizeParameter(normalizedParams[indexOf(id)], paramOf(id),
                                  state.observations, cfg) ],
       rating |-> NoRating,
       isAISuggestion |-> TRUE ]

\* the run object _suggestionToRun builds; expectedRating and expectedStddev,
\* floating-point outputs of the GP, are left out
suggestionToRun(normalizedParams, machineParams, beanId, machineId, metadata, state, cfg) ==
  LET machineIds == {machineParams[j].id : j \in 1..Len(machineParams)}
      found == {i \in 1..Len(metadata) : metadata[i].id \in machineIds}
      paramOf(id) == machineParams[CHOOSE j \in 1..Len(machineParams) :
                        /\ machineParams[j].id = id
                        /\ \A l \in 1..(j - 1) : machineParams[l].id # id]
      indexOf(id) == CHOOSE i \in found : metadata[i].id = id
      textIds == {machineParams[j].id :
                    j \in {l \in 1..Len(machineParams) : machineParams[l].type = TEXT}}
  IN [ id |-> "ai-suggestion",
       beanId |-> beanId,
       machineId |-> machineId,
       parameterValues |->
         [ id \in {metadata[i].id : i \in found} \cup textIds |->
             IF id \in {metadata[i].id : i \in found}
             THEN denormalizeParameter(normalizedParams[indexOf(id)], paramOf(id),
                                       state.observations, cfg)
             ELSE "" ],
       rating |-> NoRating,
       isAISuggestion |-> TRUE ]

\* a suggestParameters that gives up on a single observation
suggestParameters_needsTwo(store, machs, cfg, beanId, machineId, bestCandidate) ==
  LET key == makeKey(beanId, machineId)
  IN IF ~Has(machs, machineId) THEN <<>>
     ELSE IF ~BOStorage_has(store, key) THEN <<>>
     ELSE IF Len(store[key].observations) < 2 THEN <<>>
     ELSE << suggestionToRun(bestCandidate, machs[machineId], beanId, machineId,
                             store[key].parameterMetadata, store[key], cfg) >>

\* <<>> for null, <<run>> for a suggestion; bestCandidate is the candidate
\* point findMaxUCB picks
suggestParameters(store, machs, cfg, beanId, machineId, bestCandidate) ==
  LET key == makeKey(beanId, machineId)
  IN IF ~Has(machs, machineId) THEN <<>>
     ELSE IF ~BOStorage_has(store, key) THEN <<>>
     ELSE IF Len(store[key].observations) = 0 THEN <<>>
     ELSE IF gpFitThrows(store[key].gpHyperparameters) THEN <<>>
     ELSE IF cfg.numCandidates <= 0 THEN <<>>       \* findMaxUCB: no candidates
     ELSE << suggestionToRun(bestCandidate, machs[machineId], beanId, machineId,
                             store[key].parameterMetadata, store[key], cfg) >>

\* how getPredictionCurve ends: "null", "throw" (a TypeError or the GP's
\* error leaves the function) or "curve"
getPredictionCurve(store, machs, beanId, machineId, paramIndex) ==
  LET key == makeKey(beanId, machineId)
  IN IF ~BOStorage_has(store, key) THEN "null"
     ELSE IF Len(store[key].observations) = 0 THEN "null"
     ELSE
       LET metadata == store[key].parameterMetadata
           machineIds == IF Has(machs, machineId)
                         THEN {machs[machineId][j].id : j \in 1..Len(machs[machineId])}
                         ELSE {}
       IN IF ~Has(machs, machineId) THEN "throw"             \* machine.parameters
          ELSE IF paramIndex + 1 \notin 1..Len(metadata)
               THEN "throw"                    \* targetParam.id or parameter.type
          ELSE IF metadata[paramIndex + 1].id \notin machineIds
               THEN "throw"                                  \* parameter.type
          ELSE IF \E i \in 1..Len(metadata) :
                     i # paramIndex + 1 /\ metadata[i].id \notin machineIds
               THEN "throw"                                  \* param.type
          ELSE IF gpFitThrows(store[key].gpHyperparameters) THEN "throw"
          ELSE "curve"

\* _generateParameterSamples: numPoints values i / (numPoints - 1); with one
\* point the only sample is 0 / 0 (NaN), written <<0, 0>>
generateParameterSamples(parameter, numPoints) ==
  IF parameter.type \in {SLIDER, NUMBER, DROPDOWN}
  THEN [i \in 1..numPoints |->
          IF numPoints = 1 THEN <<0, 0>> ELSE Frac(i - 1, numPoints - 1)]
  ELSE <<>>

\* a search for the closest sample that moves on to a later sample at equal
\* distance
closestFrom_lastOnTie(normalizedSamples, normValue, i, minDist, closestIdx) ==
  LET dists == [j \in 1..Len(normalizedSamples) |->
                  Frac(Abs(normalizedSamples[j][1] * normValue[2]
                             - normValue[1] * normalizedSamples[j][2]),
                       normalizedSamples[j][2] * normValue[2])]
      best == CHOOSE j \in 1..Len(dists) :
                \A k \in 1..Len(dists) :
                  \/ dists[j][1] * dists[k][2] < dists[k][1] * dists[j][2]
                  \/ dists[j][1] * dists[k][2] = dists[k][1] * dists[j][2] /\ k <= j
  IN IF i >= Len(normalizedSamples) THEN closestIdx ELSE best - 1

\* the loop of getPredictionCurve over the samples from index i on: the
\* index of the first sample at the least distance from normValue
RECURSIVE closestFrom(_, _, _, _, _)
closestFrom(normalizedSamples, normValue, i, minDist, closestIdx) ==
  IF i >= Len(normalizedSamples) THEN closestIdx
  ELSE LET sample == normalizedSamples[i + 1]
           dist == Frac(Abs(sample[1] * normValue[2] - normValue[1] * sample[2]),
                        sample[2] * normValue[2])
       IN IF dist[1] * minDist[2] < minDist[1] * dist[2]
          THEN closestFrom(normalizedSamples, normValue, i + 1, dist, i)
          ELSE closestFrom(normalizedSamples, normValue, i + 1, minDist, closestIdx)

\* the object getPredictionCurve returns once the GP is fitted, numPoints
\* being options.numPoints (0 when absent). GP.predict gives one mean and one
\* variance per test vector: of ratings and uncertainties the lengths are
\* kept. validIndices is <<>> for null, else a one-element sequence holding
\* the array.
predictionCurve(store, machs, cfg, beanId, machineId, paramIndex, numPointsOption) ==
  LET numPoints == IF numPointsOption = 0 THEN 50 ELSE numPointsOption
      state == store[makeKey(beanId, machineId)]
      targetParam == state.parameterMetadata[paramIndex + 1]
      parameters == machs[machineId]
      fullParam == parameters[CHOOSE j \in 1..Len(parameters) :
                                parameters[j].id = targetParam.id]
      normalizedSamples == generateParameterSamples(fullParam, numPoints)
      X_test == [i \in 1..Len(normalizedSamples) |-> i]
      normValueOf(optIdx) == IF Len(fullParam.options) = 1 THEN Frac(0, 1)
                             ELSE Frac(optIdx, Len(fullParam.options) - 1)
      firstDist(optIdx) ==
        IF numPoints = 1 THEN <<0, 0>>
        ELSE Frac(Abs(normalizedSamples[1][1] * normValueOf(optIdx)[2]
                        - normValueOf(optIdx)[1] * normalizedSamples[1][2]),
                  normalizedSamples[1][2] * normValueOf(optIdx)[2])
  IN [ paramValues |-> [i \in 1..Len(normalizedSamples) |->
                          IF numPoints = 1 THEN "NaN"
                          ELSE denormalizeParameter(normalizedSamples[i], fullParam,
                                                    state.observations, cfg)],
       ratings |-> Len(X_test),
       uncertainties |-> Len(X_test),
       parameterType |-> fullParam.type,
       validIndices |->
         IF fullParam.type = DROPDOWN
         THEN << [k \in 1..Len(fullParam.options) |->
                    closestFrom(normalizedSamples, normValueOf(k - 1), 1,
                                firstDist(k - 1), 0)] >>
         ELSE <<>> ]

\* the early returns of suggestParameters: TRUE when it returns null before
\* fitting anything
suggestParametersNoData(store, machs, beanId, machineId) ==
  \/ ~Has(machs, machineId)
  \/ ~BOStorage_has(store, makeKey(beanId, machineId))
  \/ Len(store[makeKey(beanId, machineId)].observations) = 0

\* an isReady that wants one observation more than the threshold
isReady_offByOne(store, cfg, beanId, machineId) ==
  LET key == makeKey(beanId, machineId)
  IN IF ~BOStorage_has(store, key) THEN FALSE
     ELSE Len(store[key].observations) > cfg.minRunsThreshold

isReady(store, cfg, beanId, machineId) ==
  LET key == makeKey(beanId, machineId)
  IN IF ~BOStorage_has(store, key) THEN FALSE
     ELSE Len(store[key].observations) >= cfg.minRunsThreshold

getObservationCount(store, beanId, machineId) ==
  LET key == makeKey(beanId, machineId)
  IN IF ~BOStorage_has(store, key) THEN 0
     ELSE Len(store[key].observations)

\* a clearOptimizer that leaves the store as it is
clearOptimizer_keep(store, beanId, machineId) == store

clearOptimizer(store, beanId, machineId) ==
  BOStorage_remove(store, makeKey(beanId, machineId))

\* a machine-wide clear that stops after the first matching key
clearOptimizersForMachine_firstOnly(store, machineId) ==
  LET keysToRemove == { key \in BOStorage_keys(store) :
                          EndsWith(key, <<"_">> \o machineId) }
  IN IF keysToRemove = {} THEN store
     ELSE BOStorage_remove(store, CHOOSE key \in keysToRemove : TRUE)

\* a machine-wide clear that matches the key's head instead of its tail
clearOptimizersForMachine_prefix(store, machineId) ==
  LET keysToRemove == { key \in BOStorage_keys(store) :
                          /\ Len(machineId) + 1 <= Len(key)
                          /\ SubSeq(key, 1, Len(machineId) + 1) = machineId \o <<"_">> }
  IN [k \in (DOMAIN store) \ keysToRemove |-> store[k]]

clearOptimizersForMachine(store, machineId) ==
  LET keysToRemove == { key \in BOStorage_keys(store) :
                          EndsWith(key, <<"_">> \o machineId) }
  IN [k \in (DOMAIN store) \ keysToRemove |-> store[k]]

\* setConfig's merge: { ...config, ...updates }
mergeConfig(cfg, updates) ==
  [k \in DOMAIN cfg \cup DOMAIN updates |->
     IF Has(updates, k) THEN updates[k] ELSE cfg[k]]

\* a getConfig that hands out the config object itself
getConfig_sameObject(cfg) == [object |-> cfg, shared |-> TRUE]

\* getConfig: { ...config }, a new object with the config's entries; shared
\* tells whether the object handed out is the service's own
getConfig(cfg) == [object |-> cfg, shared |-> FALSE]

\* _saveConfig: Storage.set replaces the persisted record with the config;
\* when the store rejects the write (writable = FALSE) Storage.set throws,
\* the catch logs the error and the record stays
saveConfig(saved, cfg, writable) == IF writable THEN cfg ELSE saved

\* setConfig: the service's config, the persisted record and how the call ends
setConfig(cfg, saved, updates, writable) ==
  LET merged == mergeConfig(cfg, updates)
  IN [config |-> merged, saved |-> saveConfig(saved, merged, writable), ret |-> "ok"]

\* initializeOptimizer on a store that rejects writes: BOStorage.set throws
\* 'Failed to save Bayesian Optimization state' where it would have written
initializeOptimizerRejected(store, machs, cfg, t, beanId, machineId) ==
  LET res == initializeOptimizer(store, machs, cfg, t, beanId, machineId)
  IN IF res.ret = "true" THEN [store |-> store, ret |-> "storageError"] ELSE res

\* updateWithRun on a store that rejects writes: the first BOStorage.set it
\* reaches, in initializeOptimizer or after the push, throws
updateWithRunRejected(store, machs, cfg, t, beanId, machineId, run) ==
  LET res == updateWithRun(store, machs, cfg, t, beanId, machineId, run)
  IN IF res.created \/ res.outcome = "appended"
     THEN [store |-> store, outcome |-> "storageError", created |-> FALSE]
     ELSE res

(* ------------------------------ Models -------------------------------- *)
\* ParameterModel.validate on the type-specific part
ParameterModel_validate(param) ==
  /\ param.type \in {SLIDER, NUMBER, TEXT, DROPDOWN}
  /\ param.type = SLIDER => (param.min < param.max /\ param.step > 0)
  /\ param.type = DROPDOWN => Len(param.options) > 0

MachineModel_validate(parameters) ==
  \A i \in 1..Len(parameters) : ParameterModel_validate(parameters[i])

\* RunModel.validate(run, machine): TRUE when the error list is empty
RunModel_validate(run, parameters) ==
  /\ run.rating # NoRating => (run.rating[1] >= 1 /\ run.rating[1] <= 10)
  /\ \A i \in 1..Len(parameters) :
       LET param == parameters[i]
       IN /\ Has(run.parameterValues, param.id)
          /\ param.type = SLIDER =>
               /\ run.parameterValues[param.id] >= param.min
               /\ run.parameterValues[param.id] <= param.max
          /\ param.type = DROPDOWN =>
               \E j \in 1..Len(param.options) :
                  param.options[j] = run.parameterValues[param.id]

(* ------------------------------ Helpers ------------------------------- *)
\* Helpers.sortBy(arr, 'timestamp', ascending); Array.prototype.sort is stable
RECURSIVE sortBy(_, _)
sortBy(arr, ascending) ==
  IF arr = <<>> THEN <<>>
  ELSE LET ts == {arr[i].timestamp : i \in 1..Len(arr)}
           pick == IF ascending THEN SetMin(ts) ELSE SetMax(ts)
           i == CHOOSE i \in 1..Len(arr) :
                  /\ arr[i].timestamp = pick
                  /\ \A j \in 1..(i - 1) : arr[j].timestamp # pick
       IN <<arr[i]>> \o sortBy(SubSeq(arr, 1, i - 1) \o SubSeq(arr, i + 1, Len(arr)),
                               ascending)

(* ------------------------------ Repository ---------------------------- *)
getByBeanAndMachine(rs, beanId, machineId) ==
  sortBy(SelectSeq(rs, LAMBDA r : r.beanId = beanId /\ r.machineId = machineId),
         FALSE)

\* the forEach of RunRepository.update / delete: every rated run, in the
\* order given, through updateWithRun
RECURSIVE ingestAll(_, _, _, _, _)
ingestAll(store, machs, cfg, t, rs) ==
  IF rs = <<>> THEN store
  ELSE LET r == Head(rs)
           next == IF r.rating # NoRating
                   THEN updateWithRun(store, machs, cfg, t,
                                      r.beanId, r.machineId, r).store
                   ELSE store
       IN ingestAll(next, machs, cfg, t, Tail(rs))

\* a rebuild that ingests the runs on top of the state it finds
rebuildOptimizer_noClear(store, machs, cfg, t, rs, beanId, machineId) ==
  ingestAll(store, machs, cfg, t, getByBeanAndMachine(rs, beanId, machineId))

\* clear the pair's state and rebuild it from the runs of the pair in rs
rebuildOptimizer(store, machs, cfg, t, rs, beanId, machineId) ==
  ingestAll(clearOptimizer(store, beanId, machineId), machs, cfg, t,
            getByBeanAndMachine(rs, beanId, machineId))

\* clearOptimizer for every pair in a set; the order of a Set's forEach does
\* not matter, the removals commute
RECURSIVE clearPairs(_, _)
clearPairs(store, pairs) ==
  IF pairs = {} THEN store
  ELSE LET p == CHOOSE p \in pairs : TRUE
       IN clearPairs(clearOptimizer(store, p[1], p[2]), pairs \ {p})

\* the BO part of RunRepository.deleteByBean: store after the cascade
deleteByBean_store(store, rs, beanId) ==
  LET toDelete == SelectSeq(rs, LAMBDA r : r.beanId = beanId)
  IN IF Len(toDelete) > 0
     THEN clearPairs(store, {<<beanId, toDelete[i].machineId>> : i \in 1..Len(toDelete)})
     ELSE store

deleteByMachine_store(store, rs, machineId) ==
  LET toDelete == SelectSeq(rs, LAMBDA r : r.machineId = machineId)
  IN IF Len(toDelete) > 0
     THEN clearPairs(store, {<<toDelete[i].beanId, machineId>> : i \in 1..Len(toDelete)})
     ELSE store

\* a cascade whose catch block throws the error on to the caller
afterCascade_rethrow(ret, cascadeThrew) == IF cascadeThrew THEN "throw" ELSE ret

\* the try/catch around the BO calls of a repository operation: the error is
\* logged and the operation returns what it returns without it
afterCascade(ret, cascadeThrew) == ret

\* the BO store after a clear whose BOStorage.remove throws: the exception
\* comes from localStorage.setItem of the first removal, nothing is removed
failedClear(store) == store

(* ------------------------------ state --------------------------------- *)
VARIABLES
  machines,      \* coffee_tracker_machines: machine id -> parameters
  beans,         \* coffee_tracker_beans: the ids of the stored beans
  runs,          \* coffee_tracker_runs: the array of run records
  boStore,       \* coffee_tracker_bo_state: key -> BO state
  config,        \* BOService's config object
  now,           \* Date.now()
  usedIds,       \* machine and bean ids generateUUID has handed out
  nextRunId,     \* number of run ids generateUUID has handed out
  last,          \* the call that produced this state, its arguments and result
  savedConfig,   \* the config record persisted under the BO config key
  snapshot,      \* the object getConfig last handed out (<<>>: none yet)
  gp             \* a GaussianProcess.GP object in the hands of a caller

vars == <<machines, beans, runs, boStore, config, now, usedIds, nextRunId, last,
          savedConfig, snapshot, gp>>

NoId == <<>>

\* the record of a call: the operation, the pair it was about (NoId where the
\* operation names none), how it ended, and what the BO store held for its
\* subject when it began: for a pair, its observation count (-1: no state);
\* for a machine or a bean alone, the number of states stored for it
Call(op, beanId, machineId, ret, before) ==
  [ op |-> op, beanId |-> beanId, machineId |-> machineId, ret |-> ret,
    before |-> before, writeRejected |-> FALSE ]

\* the record of a call during which the store rejected a write
CallRejected(op, beanId, machineId, ret, before) ==
  [Call(op, beanId, machineId, ret, before) EXCEPT !.writeRejected = TRUE]

countBefore(store, beanId, machineId) ==
  IF BOStorage_has(store, makeKey(beanId, machineId))
  THEN Len(store[makeKey(beanId, machineId)].observations)
  ELSE -1

statesOfMachine(store, machineId) ==
  Cardinality({b \in BeanIds : BOStorage_has(store, makeKey(b, machineId))})

statesOfBean(store, beanId) ==
  Cardinality({m \in MachineIds : BOStorage_has(store, makeKey(beanId, m))})

Init ==
  /\ machines = <<>>
  /\ beans = {}
  /\ runs = <<>>
  /\ boStore = <<>>
  /\ config \in Configs
  /\ now = 0
  /\ usedIds = {}
  /\ nextRunId = 0
  /\ last = Call("construct", NoId, NoId, "ok", -1)
  /\ savedConfig = config
  /\ snapshot = <<>>
  /\ gp = newGP(10, 1)

(* ------------------------------ clock --------------------------------- *)
Tick ==
  /\ now < MaxClock
  /\ now' = now + 1
  /\ last' = Call("tick", NoId, NoId, "ok", -1)
  /\ UNCHANGED <<gp, machines, beans, runs, boStore, config, usedIds, nextRunId, savedConfig, snapshot>>

(* ------------------------------ BOService calls ----------------------- *)
\* the updates objects handed to setConfig: any subset of ConfigKeys, each
\* with a value a config may carry
ConfigUpdates ==
  { [k \in K |-> c[k]] : K \in SUBSET ConfigKeys, c \in Configs }

SetConfig ==
  \E updates \in ConfigUpdates :
    LET res == setConfig(config, savedConfig, updates, TRUE)
    IN /\ config' = res.config
       /\ savedConfig' = res.saved
       /\ last' = Call("setConfig", NoId, NoId, res.ret, -1)
       /\ snapshot' = IF snapshot = <<>> THEN snapshot
                      ELSE [snapshot EXCEPT !.shared = FALSE]   \* config is a new object
       /\ UNCHANGED <<gp, machines, beans, runs, boStore, now, usedIds, nextRunId>>

InitializeOptimizer ==
  \E beanId \in BeanIds, machineId \in MachineIds :
    LET res == initializeOptimizer(boStore, machines, config, now, beanId, machineId)
    IN /\ boStore' = res.store
       /\ last' = Call("initializeOptimizer", beanId, machineId, res.ret, countBefore(boStore, beanId, machineId))
       /\ UNCHANGED <<gp, machines, beans, runs, config, now, usedIds, nextRunId, savedConfig, snapshot>>

UpdateWithRun ==
  \E beanId \in BeanIds, machineId \in MachineIds :
    \E pv \in ParamValueMaps, rating \in Ratings :
      LET run == [parameterValues |-> pv, rating |-> rating]
          res == updateWithRun(boStore, machines, config, now, beanId, machineId, run)
      IN /\ boStore' = res.store
         /\ last' = Call("updateWithRun", beanId, machineId, res.outcome, countBefore(boStore, beanId, machineId))
         /\ UNCHANGED <<gp, machines, beans, runs, config, now, usedIds, nextRunId, savedConfig, snapshot>>

\* updateWithRun called directly, with any number as the run's rating
UpdateWithRunAnyRating ==
  \E beanId \in BeanIds, machineId \in MachineIds :
    \E pv \in ParamValueMaps, rating \in AnyRatings :
      LET run == [parameterValues |-> pv, rating |-> rating]
          res == updateWithRun(boStore, machines, config, now, beanId, machineId, run)
      IN /\ boStore' = res.store
         /\ last' = Call("updateWithRun", beanId, machineId, res.outcome, countBefore(boStore, beanId, machineId))
         /\ UNCHANGED <<gp, machines, beans, runs, config, now, usedIds, nextRunId, savedConfig, snapshot>>

\* parameterValues a caller of updateWithRun may pass for the machine with
\* every parameter type: slider values inside and outside [min, max], three
\* number values, a dropdown option and a string that is no option
AnyValueMaps ==
  { [id \in {"p1", "p2", "d1"} |->
       IF id = "p1" THEN s ELSE IF id = "p2" THEN n ELSE o] :
      s \in {1, 3}, n \in {3, 5, 9}, o \in {"b", "z"} }

\* updateWithRun called directly for a stored bean, with any values
UpdateWithRunAnyValue ==
  \E beanId \in beans, machineId \in MachineIds :
    \E pv \in AnyValueMaps, rating \in Ratings :
      LET run == [parameterValues |-> pv, rating |-> rating]
          res == updateWithRun(boStore, machines, config, now, beanId, machineId, run)
      IN /\ boStore' = res.store
         /\ last' = Call("updateWithRun", beanId, machineId, res.outcome, countBefore(boStore, beanId, machineId))
         /\ UNCHANGED <<gp, machines, beans, runs, config, now, usedIds, nextRunId, savedConfig, snapshot>>

\* the parameters and raw values the encoding is exercised on: every integer
\* of a slider's range, every option of a dropdown and a string that is none
CodecParams == {PSlider, PSliderOffset, PSliderCoarse, PDropdown, PDropdownSingle}

CodecValues(param) ==
  IF param.type = SLIDER THEN param.min..param.max
  ELSE {param.options[i] : i \in 1..Len(param.options)} \cup {"z"}

\* _denormalizeParameter(_normalizeParameter(value)) against the same state
roundTrip(value, param, observations, cfg) ==
  denormalizeParameter(normalizeParameter(value, param, observations, cfg), param,
                       observations, cfg)

\* a value is encoded and the result decoded
RoundTrip ==
  \E param \in CodecParams :
    \E value \in CodecValues(param) :
      /\ last' = [ Call("roundTrip", NoId, NoId, "ok", -1) EXCEPT
                     !.ret = [ param |-> param, value |-> value,
                               encoded |-> normalizeParameter(value, param, <<>>, config),
                               decoded |-> roundTrip(value, param, <<>>, config) ] ]
      /\ UNCHANGED <<gp, machines, beans, runs, boStore, config, now, usedIds, nextRunId,
                     savedConfig, snapshot>>

\* new GP(kernel, noise) with the output scale and the noise in tenths; the
\* config they come from is not validated, so zero and negative values arrive
NewGP ==
  \E outputScale \in {0, 10}, noise \in {-1, 0, 1} :
    /\ gp' = newGP(outputScale, noise)
    /\ last' = Call("GP", NoId, NoId, "ok", -1)
    /\ UNCHANGED <<machines, beans, runs, boStore, config, now, usedIds, nextRunId,
                   savedConfig, snapshot>>

\* gp.fit(X, y) with X being n copies of one point, for which the RBF kernel
\* value is outputScale * exp(0) = outputScale, and y being m ratings
GpFit ==
  \E n \in 0..2, m \in 0..2 :
    LET X == [i \in 1..n |-> <<(<<1, 2>>)>>]
        y == [i \in 1..m |-> <<1, 2>>]
        res == gpFit(gp, X, y)
    IN /\ gp' = res.gp
       /\ last' = [ Call("fit", NoId, NoId, res.outcome, -1) EXCEPT
                      !.before = [n |-> n, m |-> m, attempts |-> res.attempts] ]
       /\ UNCHANGED <<machines, beans, runs, boStore, config, now, usedIds, nextRunId,
                      savedConfig, snapshot>>

\* gp.predict(X_test)
GpPredict ==
  /\ last' = [ Call("predict", NoId, NoId, gpPredict(gp), -1) EXCEPT
                 !.before = [n |-> Len(gp.X_train), m |-> Len(gp.y_train), attempts |-> 0] ]
  /\ UNCHANGED <<gp, machines, beans, runs, boStore, config, now, usedIds, nextRunId,
                 savedConfig, snapshot>>

\* findMaxUCB on the predictions for up to MaxCandidates candidates
FindMaxUCB ==
  \E n \in 0..MaxCandidates :
    \E means \in [1..n -> MeanValues], variances \in [1..n -> VarianceValues],
       exploration \in ExplorationFactors :
      /\ last' = [ Call("findMaxUCB", NoId, NoId, "ok", -1) EXCEPT
                     !.ret = [ means |-> means, variances |-> variances,
                               exploration |-> exploration,
                               result |-> findMaxUCB(means, variances, exploration) ] ]
      /\ UNCHANGED <<gp, machines, beans, runs, boStore, config, now, usedIds, nextRunId,
                     savedConfig, snapshot>>

ClearOptimizer ==
  \E beanId \in BeanIds, machineId \in MachineIds :
    /\ boStore' = clearOptimizer(boStore, beanId, machineId)
    /\ last' = Call("clearOptimizer", beanId, machineId, "ok", countBefore(boStore, beanId, machineId))
    /\ UNCHANGED <<gp, machines, beans, runs, config, now, usedIds, nextRunId, savedConfig, snapshot>>

ClearOptimizersForMachine ==
  \E machineId \in MachineIds :
    /\ boStore' = clearOptimizersForMachine(boStore, machineId)
    /\ last' = Call("clearOptimizersForMachine", NoId, machineId, "ok", statesOfMachine(boStore, machineId))
    /\ UNCHANGED <<gp, machines, beans, runs, config, now, usedIds, nextRunId, savedConfig, snapshot>>

GetConfig ==
  /\ snapshot' = getConfig(config)
  /\ last' = Call("getConfig", NoId, NoId, "ok", -1)
  /\ UNCHANGED <<gp, machines, beans, runs, boStore, config, now, usedIds, nextRunId,
                 savedConfig>>

\* the caller assigns to a property of the object getConfig gave it
MutateSnapshot ==
  /\ snapshot # <<>>
  /\ \E k \in ConfigKeys, c \in Configs :
       /\ snapshot' = [snapshot EXCEPT !.object[k] = c[k]]
       /\ config' = IF snapshot.shared THEN snapshot'.object ELSE config
  /\ last' = Call("mutateSnapshot", NoId, NoId, "ok", -1)
  /\ UNCHANGED <<gp, machines, beans, runs, boStore, now, usedIds, nextRunId, savedConfig>>

\* the three writing calls while localStorage.setItem throws (quota exceeded)
SetConfigRejected ==
  \E updates \in ConfigUpdates :
    LET res == setConfig(config, savedConfig, updates, FALSE)
    IN /\ config' = res.config
       /\ savedConfig' = res.saved
       /\ last' = CallRejected("setConfig", NoId, NoId, res.ret, -1)
       /\ snapshot' = IF snapshot = <<>> THEN snapshot
                      ELSE [snapshot EXCEPT !.shared = FALSE]   \* config is a new object
       /\ UNCHANGED <<gp, machines, beans, runs, boStore, now, usedIds, nextRunId>>

InitializeOptimizerRejected ==
  \E beanId \in BeanIds, machineId \in MachineIds :
    LET res == initializeOptimizerRejected(boStore, machines, config, now, beanId, machineId)
        before == countBefore(boStore, beanId, machineId)
    IN /\ boStore' = res.store
       /\ last' = IF res.ret = "storageError"
                  THEN CallRejected("initializeOptimizer", beanId, machineId, res.ret, before)
                  ELSE Call("initializeOptimizer", beanId, machineId, res.ret, before)
       /\ UNCHANGED <<gp, machines, beans, runs, config, now, usedIds, nextRunId, savedConfig, snapshot>>

UpdateWithRunRejected ==
  \E beanId \in BeanIds, machineId \in MachineIds :
    \E pv \in ParamValueMaps, rating \in Ratings :
      LET run == [parameterValues |-> pv, rating |-> rating]
          res == updateWithRunRejected(boStore, machines, config, now, beanId, machineId, run)
          before == countBefore(boStore, beanId, machineId)
      IN /\ boStore' = res.store
         /\ last' = IF res.outcome = "storageError"
                    THEN CallRejected("updateWithRun", beanId, machineId, res.outcome, before)
                    ELSE Call("updateWithRun", beanId, machineId, res.outcome, before)
         /\ UNCHANGED <<gp, machines, beans, runs, config, now, usedIds, nextRunId, savedConfig, snapshot>>

\* the reads: neither touches the stores
SuggestParameters ==
  \E beanId \in BeanIds, machineId \in MachineIds :
    LET key == makeKey(beanId, machineId)
        numDims == IF BOStorage_has(boStore, key)
                   THEN Len(boStore[key].parameterMetadata) ELSE 0
    IN \E bestCandidate \in Candidates(numDims) :
         LET res == suggestParameters(boStore, machines, config, beanId, machineId,
                                      bestCandidate)
         IN /\ last' = Call("suggestParameters", beanId, machineId, IF res = <<>> THEN "null" ELSE "suggestion", countBefore(boStore, beanId, machineId))
            /\ UNCHANGED <<gp, machines, beans, runs, boStore, config, now, usedIds,
                           nextRunId, savedConfig, snapshot>>

\* paramIndex values a caller passes: the indices of the longest metadata and
\* one past them
ParamIndices == 0..Len(getOptimizableParameters(SchemaFull))

\* getPredictionCurve with options.numPoints absent (0), 1, 2 or 5 and no
\* fixedValues; the record of the call keeps the index, the option and the
\* returned object (<<>> when none is returned)
GetPredictionCurve ==
  \E beanId \in BeanIds, machineId \in MachineIds, paramIndex \in ParamIndices :
    \E numPoints \in {0, 1, 2, 5} :
    /\ last' = [ op |-> "getPredictionCurve", beanId |-> beanId,
                 machineId |-> machineId,
                 ret |-> getPredictionCurve(boStore, machines, beanId, machineId, paramIndex),
                 before |-> countBefore(boStore, beanId, machineId),
                 writeRejected |-> FALSE,
                 paramIndex |-> paramIndex, numPoints |-> numPoints,
                 curve |-> IF getPredictionCurve(boStore, machines, beanId, machineId, paramIndex) = "curve"
                           THEN predictionCurve(boStore, machines, config, beanId,
                                                machineId, paramIndex, numPoints)
                           ELSE <<>> ]
    /\ UNCHANGED <<gp, machines, beans, runs, boStore, config, now, usedIds,
                   nextRunId, savedConfig, snapshot>>

(* ------------------------------ MachineRepository --------------------- *)
MachineCreate ==
  \E machineId \in MachineIds \ usedIds, parameters \in Schemas \cup {SchemaInvalid} :
    IF ~MachineModel_validate(parameters)
    THEN /\ last' = Call("MachineRepository.create", NoId, machineId, "throw", statesOfMachine(boStore, machineId))
         /\ UNCHANGED <<gp, machines, beans, runs, boStore, config, now, usedIds, nextRunId, savedConfig, snapshot>>
    ELSE /\ machines' = [m \in (DOMAIN machines) \cup {machineId} |->
                           IF m = machineId THEN parameters ELSE machines[m]]
         /\ usedIds' = usedIds \cup {machineId}
         /\ last' = Call("MachineRepository.create", NoId, machineId, "ok", statesOfMachine(boStore, machineId))
         /\ UNCHANGED <<gp, beans, runs, boStore, config, now, nextRunId, savedConfig, snapshot>>

MachineUpdate ==
  \E machineId \in MachineIds, parameters \in Schemas \cup {SchemaInvalid} :
    IF ~Has(machines, machineId) \/ ~MachineModel_validate(parameters)
    THEN /\ last' = Call("MachineRepository.update", NoId, machineId, "throw", statesOfMachine(boStore, machineId))
         /\ UNCHANGED <<gp, machines, beans, runs, boStore, config, now, usedIds, nextRunId, savedConfig, snapshot>>
    ELSE /\ machines' = [machines EXCEPT ![machineId] = parameters]
         /\ boStore' = clearOptimizersForMachine(boStore, machineId)
         /\ last' = Call("MachineRepository.update", NoId, machineId, "ok", statesOfMachine(boStore, machineId))
         /\ UNCHANGED <<gp, beans, runs, config, now, usedIds, nextRunId, savedConfig, snapshot>>

MachineDelete ==
  \E machineId \in MachineIds :
    IF ~Has(machines, machineId)
    THEN /\ last' = Call("MachineRepository.delete", NoId, machineId, "throw", statesOfMachine(boStore, machineId))
         /\ UNCHANGED <<gp, machines, beans, runs, boStore, config, now, usedIds, nextRunId, savedConfig, snapshot>>
    ELSE /\ runs' = SelectSeq(runs, LAMBDA r : r.machineId # machineId)
         /\ boStore' = deleteByMachine_store(boStore, runs, machineId)
         /\ machines' = [m \in (DOMAIN machines) \ {machineId} |-> machines[m]]
         /\ last' = Call("MachineRepository.delete", NoId, machineId, "ok", statesOfMachine(boStore, machineId))
         /\ UNCHANGED <<gp, beans, config, now, usedIds, nextRunId, savedConfig, snapshot>>

(* ------------------------------ BeanRepository ------------------------ *)
BeanCreate ==
  \E beanId \in BeanIds \ usedIds :
    /\ beans' = beans \cup {beanId}
    /\ usedIds' = usedIds \cup {beanId}
    /\ last' = Call("BeanRepository.create", beanId, NoId, "ok", statesOfBean(boStore, beanId))
    /\ UNCHANGED <<gp, machines, runs, boStore, config, now, nextRunId, savedConfig, snapshot>>

BeanDelete ==
  \E beanId \in BeanIds :
    IF beanId \notin beans
    THEN /\ last' = Call("BeanRepository.delete", beanId, NoId, "throw", statesOfBean(boStore, beanId))
         /\ UNCHANGED <<gp, machines, beans, runs, boStore, config, now, usedIds, nextRunId, savedConfig, snapshot>>
    ELSE /\ runs' = SelectSeq(runs, LAMBDA r : r.beanId # beanId)
         /\ boStore' = deleteByBean_store(boStore, runs, beanId)
         /\ beans' = beans \ {beanId}
         /\ last' = Call("BeanRepository.delete", beanId, NoId, "ok", statesOfBean(boStore, beanId))
         /\ UNCHANGED <<gp, machines, config, now, usedIds, nextRunId, savedConfig, snapshot>>

(* ------------------------------ RunRepository ------------------------- *)
\* the parameterValues a run form submits: one value for each parameter of
\* some machine schema
FormValue(id) == IF id = "p1" THEN 1 ELSE IF id = "p2" THEN 3 ELSE "x"

FormValueMaps ==
  { [id \in {schema[i].id : i \in 1..Len(schema)} |-> FormValue(id)] :
      schema \in Schemas }

RunCreate ==
  \E beanId \in beans, machineId \in MachineIds :
    \E pv \in FormValueMaps, rating \in Ratings :
      LET run == [ id |-> nextRunId + 1, beanId |-> beanId, machineId |-> machineId,
                   parameterValues |-> pv, rating |-> rating, timestamp |-> now ]
      IN /\ nextRunId < MaxRuns
         /\ IF ~Has(machines, machineId) \/ ~RunModel_validate(run, machines[machineId])
            THEN /\ last' = Call("RunRepository.create", beanId, machineId, "throw", countBefore(boStore, beanId, machineId))
                 /\ UNCHANGED <<gp, machines, beans, runs, boStore, config, now,
                                usedIds, nextRunId, savedConfig, snapshot>>
            ELSE /\ runs' = Append(runs, run)
                 /\ nextRunId' = nextRunId + 1
                 /\ boStore' = IF run.rating # NoRating
                               THEN updateWithRun(boStore, machines, config, now,
                                                  run.beanId, run.machineId, run).store
                               ELSE boStore
                 /\ last' = Call("RunRepository.create", beanId, machineId, "ok", countBefore(boStore, beanId, machineId))
                 /\ UNCHANGED <<gp, machines, beans, config, now, usedIds, savedConfig, snapshot>>

\* RunRepository.create again, with forms for the machine with every
\* parameter type whose number and dropdown values vary, so that the number
\* range of the history is not a single point
VariedValueMaps ==
  { [id \in {SchemaFull[i].id : i \in 1..Len(SchemaFull)} |->
       IF id = "p2" THEN v ELSE IF id = "d1" THEN o ELSE FormValue(id)] :
      v \in {3, 5}, o \in {"a", "c"} }

RunCreateVaried ==
  \E beanId \in beans, machineId \in MachineIds :
    \E pv \in VariedValueMaps, rating \in Ratings :
      LET run == [ id |-> nextRunId + 1, beanId |-> beanId, machineId |-> machineId,
                   parameterValues |-> pv, rating |-> rating, timestamp |-> now ]
      IN /\ nextRunId < MaxRuns
         /\ IF ~Has(machines, machineId) \/ ~RunModel_validate(run, machines[machineId])
            THEN /\ last' = Call("RunRepository.create", beanId, machineId, "throw", countBefore(boStore, beanId, machineId))
                 /\ UNCHANGED <<gp, machines, beans, runs, boStore, config, now,
                                usedIds, nextRunId, savedConfig, snapshot>>
            ELSE /\ runs' = Append(runs, run)
                 /\ nextRunId' = nextRunId + 1
                 /\ boStore' = IF run.rating # NoRating
                               THEN updateWithRun(boStore, machines, config, now,
                                                  run.beanId, run.machineId, run).store
                               ELSE boStore
                 /\ last' = Call("RunRepository.create", beanId, machineId, "ok", countBefore(boStore, beanId, machineId))
                 /\ UNCHANGED <<gp, machines, beans, config, now, usedIds, savedConfig, snapshot>>

RunUpdate ==
  \E id \in RunIds, pv \in FormValueMaps, rating \in Ratings :
    IF \A i \in 1..Len(runs) : runs[i].id # id
    THEN /\ last' = Call("RunRepository.update", NoId, NoId, "throw", -1)
         /\ UNCHANGED <<gp, machines, beans, runs, boStore, config, now, usedIds, nextRunId, savedConfig, snapshot>>
    ELSE
      LET index == CHOOSE i \in 1..Len(runs) : runs[i].id = id
          updated == [runs[index] EXCEPT !.parameterValues = pv, !.rating = rating]
      IN IF \/ ~Has(machines, updated.machineId)
            \/ ~RunModel_validate(updated, machines[updated.machineId])
         THEN /\ last' = Call("RunRepository.update", updated.beanId, updated.machineId, "throw", countBefore(boStore, updated.beanId, updated.machineId))
              /\ UNCHANGED <<gp, machines, beans, runs, boStore, config, now,
                             usedIds, nextRunId, savedConfig, snapshot>>
         ELSE /\ runs' = [runs EXCEPT ![index] = updated]
              /\ boStore' = IF updated.rating # NoRating
                            THEN rebuildOptimizer(boStore, machines, config, now,
                                                  runs', updated.beanId,
                                                  updated.machineId)
                            ELSE boStore
              /\ last' = Call("RunRepository.update", updated.beanId, updated.machineId, IF updated.rating # NoRating THEN "rebuilt" ELSE "kept", countBefore(boStore, updated.beanId, updated.machineId))
              /\ UNCHANGED <<gp, machines, beans, config, now, usedIds, nextRunId, savedConfig, snapshot>>

RunDelete ==
  \E id \in RunIds :
    IF \A i \in 1..Len(runs) : runs[i].id # id
    THEN /\ last' = Call("RunRepository.delete", NoId, NoId, "throw", -1)
         /\ UNCHANGED <<gp, machines, beans, runs, boStore, config, now, usedIds, nextRunId, savedConfig, snapshot>>
    ELSE
      LET runToDelete == runs[CHOOSE i \in 1..Len(runs) : runs[i].id = id]
      IN /\ runs' = SelectSeq(runs, LAMBDA r : r.id # id)
         /\ boStore' = IF runToDelete.rating # NoRating
                       THEN rebuildOptimizer(boStore, machines, config, now, runs',
                                             runToDelete.beanId, runToDelete.machineId)
                       ELSE boStore
         /\ last' = Call("RunRepository.delete", runToDelete.beanId, runToDelete.machineId, IF runToDelete.rating # NoRating THEN "rebuilt" ELSE "kept", countBefore(boStore, runToDelete.beanId, runToDelete.machineId))
         /\ UNCHANGED <<gp, machines, beans, config, now, usedIds, nextRunId, savedConfig, snapshot>>

(* ------------------------------ failing cascades --------------------- *)
\* the repository operations when the BOStorage.remove of their cascade
\* throws; each does its own Storage.set before the try block
MachineUpdateClearFails ==
  \E machineId \in MachineIds, parameters \in Schemas :
    /\ Has(machines, machineId)
    /\ MachineModel_validate(parameters)
    /\ statesOfMachine(boStore, machineId) > 0        \* keysToRemove is not empty
    /\ machines' = [machines EXCEPT ![machineId] = parameters]
    /\ boStore' = failedClear(boStore)
    /\ last' = CallRejected("MachineRepository.update", NoId, machineId, afterCascade("ok", TRUE), statesOfMachine(boStore, machineId))
    /\ UNCHANGED <<gp, beans, runs, config, now, usedIds, nextRunId, savedConfig, snapshot>>

MachineDeleteClearFails ==
  \E machineId \in MachineIds :
    /\ Has(machines, machineId)
    /\ \E i \in 1..Len(runs) : runs[i].machineId = machineId          \* count > 0
    /\ runs' = SelectSeq(runs, LAMBDA r : r.machineId # machineId)
    /\ boStore' = failedClear(boStore)
    /\ machines' = [m \in (DOMAIN machines) \ {machineId} |-> machines[m]]
    /\ last' = CallRejected("MachineRepository.delete", NoId, machineId, afterCascade("ok", TRUE), statesOfMachine(boStore, machineId))
    /\ UNCHANGED <<gp, beans, config, now, usedIds, nextRunId, savedConfig, snapshot>>

BeanDeleteClearFails ==
  \E beanId \in BeanIds :
    /\ beanId \in beans
    /\ \E i \in 1..Len(runs) : runs[i].beanId = beanId                \* count > 0
    /\ runs' = SelectSeq(runs, LAMBDA r : r.beanId # beanId)
    /\ boStore' = failedClear(boStore)
    /\ beans' = beans \ {beanId}
    /\ last' = CallRejected("BeanRepository.delete", beanId, NoId, afterCascade("ok", TRUE), statesOfBean(boStore, beanId))
    /\ UNCHANGED <<gp, machines, config, now, usedIds, nextRunId, savedConfig, snapshot>>

RunDeleteClearFails ==
  \E id \in RunIds :
    /\ \E i \in 1..Len(runs) : runs[i].id = id
    /\ LET runToDelete == runs[CHOOSE i \in 1..Len(runs) : runs[i].id = id]
       IN /\ runToDelete.rating # NoRating
          /\ runs' = SelectSeq(runs, LAMBDA r : r.id # id)
          /\ boStore' = failedClear(boStore)
          /\ last' = CallRejected("RunRepository.delete", runToDelete.beanId, runToDelete.machineId, afterCascade("ok", TRUE), countBefore(boStore, runToDelete.beanId, runToDelete.machineId))
          /\ UNCHANGED <<gp, machines, beans, config, now, usedIds, nextRunId, savedConfig, snapshot>>

(* ------------------------------ specifications ------------------------ *)
\* a fresh installation and every operation of the data layer and the service
Next ==
  \/ Tick
  \/ SetConfig
  \/ InitializeOptimizer
  \/ UpdateWithRun
  \/ ClearOptimizer
  \/ ClearOptimizersForMachine
  \/ MachineCreate
  \/ MachineUpdate
  \/ MachineDelete
  \/ BeanCreate
  \/ BeanDelete
  \/ RunCreate
  \/ RunUpdate
  \/ RunDelete

Spec == Init /\ [][Next]_vars

\* an installation that already holds two beans and one or two machines
\* (reached from Init by BeanCreate and MachineCreate), no run, no BO state;
\* the second machine has free-text parameters only, or none at all
InitPopulated ==
  /\ machines \in { [m \in {<<"m1">>} |-> SchemaMixed] } \cup
                  { [m \in MachineIds |-> IF m = <<"m1">> THEN SchemaMixed ELSE other] :
                      other \in {SchemaText, SchemaNone} }
  /\ beans = BeanIds
  /\ runs = <<>>
  /\ boStore = <<>>
  /\ config \in Configs
  /\ now = 0
  /\ usedIds = BeanIds \cup MachineIds
  /\ nextRunId = 0
  /\ last = Call("construct", NoId, NoId, "ok", -1)
  /\ savedConfig = config
  /\ snapshot = <<>>
  /\ gp = newGP(10, 1)

\* the service's own API on a fixed machine table
NextService ==
  \/ SetConfig
  \/ InitializeOptimizer
  \/ UpdateWithRun
  \/ ClearOptimizer
  \/ ClearOptimizersForMachine

SpecService == InitPopulated /\ [][NextService]_vars

\* the same without setConfig: the config stays the one loaded at construction
NextFixedConfig ==
  \/ Tick
  \/ InitializeOptimizer
  \/ UpdateWithRun
  \/ ClearOptimizer
  \/ ClearOptimizersForMachine

SpecFixedConfig == InitPopulated /\ [][NextFixedConfig]_vars

\* the data layer: the repository operations, which call the service
NextRepository ==
  \/ MachineUpdate
  \/ MachineDelete
  \/ BeanDelete
  \/ RunCreate
  \/ RunUpdate
  \/ RunDelete

\* two beans and one machine; one run id is already spent (a run created and
\* deleted again); the default kernel
InitCascade ==
  /\ machines = [m \in {<<"m1">>} |-> SchemaMixed]
  /\ beans = BeanIds
  /\ runs = <<>>
  /\ boStore = <<>>
  /\ config \in {c \in Configs : c.kernelLengthScale = 3
                                 /\ c.minRunsThreshold = MaxThresholdCfg
                                 /\ c.maxObservations = MaxObsCfg}
  /\ now = 0
  /\ usedIds = BeanIds \cup MachineIds
  /\ nextRunId = 1
  /\ last = Call("construct", NoId, NoId, "ok", -1)
  /\ savedConfig = config
  /\ snapshot = <<>>
  /\ gp = newGP(10, 1)

SpecCascade == InitCascade /\ [][NextRepository]_vars

\* one bean and one machine: the run history of a single pair
InitHistory ==
  /\ machines = [m \in {<<"m1">>} |-> SchemaMixed]
  /\ beans = {<<"b1">>}
  /\ runs = <<>>
  /\ boStore = <<>>
  /\ config \in {c \in Configs : c.kernelLengthScale = 3
                                 /\ c.minRunsThreshold = MaxThresholdCfg}
  /\ now = 0
  /\ usedIds = {<<"b1">>, <<"m1">>}
  /\ nextRunId = 0
  /\ last = Call("construct", NoId, NoId, "ok", -1)
  /\ savedConfig = config
  /\ snapshot = <<>>
  /\ gp = newGP(10, 1)

NextHistory ==
  \/ MachineUpdate
  \/ RunCreate
  \/ RunUpdate
  \/ RunDelete

SpecHistory == InitHistory /\ [][NextHistory]_vars

\* runs created one after the other for one bean and one machine, nothing
\* else: the store is what ingesting them in order has made it
NextIngest ==
  \/ Tick
  \/ RunCreateVaried

SpecIngest == InitHistory /\ [][NextIngest]_vars

\* the reads next to the operations that make and strand BO states: one
\* machine, edited and deleted, and the service fed directly
InitRead ==
  /\ machines = [m \in {<<"m1">>} |-> SchemaMixed]
  /\ beans = BeanIds
  /\ runs = <<>>
  /\ boStore = <<>>
  /\ config \in {[c EXCEPT !.numCandidates = n] :
                    c \in {d \in Configs : /\ d.kernelLengthScale = 3
                                           /\ d.minRunsThreshold = MaxThresholdCfg
                                           /\ d.maxObservations = MaxObsCfg},
                    n \in {0, 100}}
  /\ now = 0
  /\ usedIds = BeanIds \cup MachineIds
  /\ nextRunId = 0
  /\ last = Call("construct", NoId, NoId, "ok", -1)
  /\ savedConfig = config
  /\ snapshot = <<>>
  /\ gp = newGP(10, 1)

NextRead ==
  \/ UpdateWithRun
  \/ MachineUpdate
  \/ MachineDelete
  \/ SuggestParameters
  \/ GetPredictionCurve

SpecRead == InitRead /\ [][NextRead]_vars

\* the writing calls of BOService on a store that accepts some writes and
\* rejects others
NextWriteFault ==
  \/ InitializeOptimizer
  \/ UpdateWithRun
  \/ SetConfigRejected
  \/ InitializeOptimizerRejected
  \/ UpdateWithRunRejected

SpecWriteFault == InitCascade /\ [][NextWriteFault]_vars

\* runs created and machines edited, and the repository operations whose
\* cascade fails
NextCascadeFault ==
  \/ RunCreate
  \/ MachineUpdate
  \/ MachineUpdateClearFails
  \/ MachineDeleteClearFails
  \/ BeanDeleteClearFails
  \/ RunDeleteClearFails

SpecCascadeFault == InitCascade /\ [][NextCascadeFault]_vars

\* the config API and a caller that edits what getConfig returned
NextConfig ==
  \/ SetConfig
  \/ GetConfig
  \/ MutateSnapshot

SpecConfig == InitCascade /\ [][NextConfig]_vars

\* suggestions asked for one bean on a machine that has a parameter of every
\* type, while runs are recorded and the machine is edited
InitSuggest ==
  /\ machines = [m \in {<<"m1">>} |-> SchemaFull]
  /\ beans = {<<"b1">>}
  /\ runs = <<>>
  /\ boStore = <<>>
  /\ config \in {c \in Configs : /\ c.kernelLengthScale = 3
                                 /\ c.minRunsThreshold = MaxThresholdCfg
                                 /\ c.maxObservations = MaxObsCfg}
  /\ now = 0
  /\ usedIds = {<<"b1">>, <<"m1">>}
  /\ nextRunId = 0
  /\ last = Call("construct", NoId, NoId, "ok", -1)
  /\ savedConfig = config
  /\ snapshot = <<>>
  /\ gp = newGP(10, 1)

NextSuggest ==
  \/ RunCreateVaried
  \/ SuggestParameters

SpecSuggest == InitSuggest /\ [][NextSuggest]_vars

\* sequences of updateWithRun calls, whatever the rating of the run passed
NextRatings ==
  \/ UpdateWithRunAnyRating
  \/ ClearOptimizer

SpecRatings == InitCascade /\ [][NextRatings]_vars

\* sequences of updateWithRun calls for one bean on the machine with every
\* parameter type, whatever the values of the run passed
NextValues ==
  \/ UpdateWithRunAnyValue
  \/ ClearOptimizer

SpecValues == InitSuggest /\ [][NextValues]_vars

\* the parameter encoding applied under every config
InitCodec ==
  /\ machines = [m \in {<<"m1">>} |-> SchemaFull]
  /\ beans = {<<"b1">>}
  /\ runs = <<>>
  /\ boStore = <<>>
  /\ config \in Configs
  /\ now = 0
  /\ usedIds = {<<"b1">>, <<"m1">>}
  /\ nextRunId = 0
  /\ last = Call("construct", NoId, NoId, "ok", -1)
  /\ savedConfig = config
  /\ snapshot = <<>>
  /\ gp = newGP(10, 1)

NextCodec ==
  \/ RoundTrip

SpecCodec == InitCodec /\ [][NextCodec]_vars

\* the acquisition function applied to predictions
NextAcquisition ==
  \/ FindMaxUCB

SpecAcquisition == InitCascade /\ [][NextAcquisition]_vars

\* a GP object constructed, fitted and asked for predictions in any order
SpecGP == InitCascade /\ [][NewGP \/ GpFit \/ GpPredict]_vars

\* updateWithRun with a rated run that has a value for every parameter of
\* SchemaFull
UpdateWithRunComplete ==
  \E beanId \in beans, machineId \in MachineIds :
    \E pv \in {m \in VariedValueMaps : m["p2"] = 3} :
      LET run == [parameterValues |-> pv, rating |-> <<10>>]
          res == updateWithRun(boStore, machines, config, now, beanId, machineId, run)
      IN /\ boStore' = res.store
         /\ last' = Call("updateWithRun", beanId, machineId, res.outcome, countBefore(boStore, beanId, machineId))
         /\ UNCHANGED <<gp, machines, beans, runs, config, now, usedIds, nextRunId, savedConfig, snapshot>>

\* prediction curves for pairs of a machine with every kind of parameter,
\* which may be deleted while states of its pairs remain
SpecCurve == InitSuggest /\ [][UpdateWithRunComplete \/ MachineDelete \/ GetPredictionCurve]_vars

\* the runs of one pair created, edited and deleted while the machine keeps
\* its parameters
SpecRuns == InitHistory /\ [][RunCreate \/ RunUpdate \/ RunDelete]_vars

\* runs created at different times and deleted, for a machine that can be
\* given the slider alone
SpecChronology == InitHistory /\ [][Tick \/ MachineUpdate \/ RunCreate \/ RunDelete]_vars

\* beans and machines whose ids contain the separator of _makeKey, as an
\* import or a direct caller of the service can supply them
InitSeparator ==
  /\ machines = [m \in {<<"m">>, <<"x", "_", "m">>} |-> SchemaSlider]
  /\ beans = {<<"b">>, <<"b", "_", "x">>}
  /\ runs = <<>>
  /\ boStore = <<>>
  /\ config \in {c \in Configs : /\ c.kernelLengthScale = 3
                                  /\ c.minRunsThreshold = MaxThresholdCfg
                                  /\ c.maxObservations = MaxObsCfg}
  /\ now = 0
  /\ usedIds = beans \cup DOMAIN machines
  /\ nextRunId = 0
  /\ last = Call("construct", NoId, NoId, "ok", -1)
  /\ savedConfig = config
  /\ snapshot = <<>>
  /\ gp = newGP(10, 1)

\* updateWithRun for a stored bean and a stored machine, whatever their ids
UpdateWithRunStored ==
  \E beanId \in beans, machineId \in DOMAIN machines :
    \E pv \in ParamValueMaps, rating \in Ratings :
      LET run == [parameterValues |-> pv, rating |-> rating]
          res == updateWithRun(boStore, machines, config, now, beanId, machineId, run)
      IN /\ boStore' = res.store
         /\ last' = Call("updateWithRun", beanId, machineId, res.outcome, countBefore(boStore, beanId, machineId))
         /\ UNCHANGED <<gp, machines, beans, runs, config, now, usedIds, nextRunId, savedConfig, snapshot>>

\* clearOptimizersForMachine for a stored machine, whatever its id
ClearOptimizersForMachineStored ==
  \E machineId \in DOMAIN machines :
    /\ boStore' = clearOptimizersForMachine(boStore, machineId)
    /\ last' = Call("clearOptimizersForMachine", NoId, machineId, "ok", statesOfMachine(boStore, machineId))
    /\ UNCHANGED <<gp, machines, beans, runs, config, now, usedIds, nextRunId, savedConfig, snapshot>>

SpecSeparator == InitSeparator /\ [][UpdateWithRunStored \/ ClearOptimizersForMachineStored]_vars

(* ------------------------------ properties ---------------------------- *)
\* C1: while the config stays as loaded (maxObservations >= 1) every stored
\* observation list holds at most maxObservations entries, and whatever run
\* updateWithRun is given next for whatever pair, a run it ingests lands at
\* the tail, the earlier observations keep their order and only the oldest
\* ones leave; a run it does not ingest leaves the list as it was.
C1_CapKeepsNewestInOrder ==
  /\ config.maxObservations >= 1
  /\ \A key \in DOMAIN boStore :
       Len(boStore[key].observations) <= config.maxObservations
  /\ \A b \in BeanIds, m \in MachineIds, pv \in ParamValueMaps, rating \in Ratings :
       LET key == makeKey(b, m)
           run == [parameterValues |-> pv, rating |-> rating]
           res == updateWithRun(boStore, machines, config, now, b, m, run)
           pre == IF Has(boStore, key) THEN boStore[key].observations ELSE <<>>
       IN IF res.outcome = "appended"
          THEN LET post == res.store[key].observations
                   n == Min(Len(pre) + 1, config.maxObservations)
               IN /\ Len(post) = n
                  /\ \A i \in 1..(n - 1) : post[i] = pre[Len(pre) - (n - 1) + i]
                  /\ post[n].rating = Frac(rating[1] - 1, 9)
                  /\ \A id \in DOMAIN post[n].rawValues :
                       post[n].rawValues[id] = pv[id]
          ELSE Has(res.store, key) => res.store[key].observations = pre

\* a full list of two different observations took one more run: the older one
\* was dropped and the call's observation is the tail
C1_Witness ==
  /\ last.op = "updateWithRun"
  /\ last.ret = "appended"
  /\ last.before = config.maxObservations
  /\ config.maxObservations = MaxObsCfg
  /\ LET obs == boStore[makeKey(last.beanId, last.machineId)].observations
     IN Len(obs) = MaxObsCfg /\ obs[1] # obs[Len(obs)]

\* C2: updateWithRun with an unrated run, for whatever pair and parameter
\* values, returns the store it was given, key for key; after such a call a
\* pair that had no state has none and a pair that had one has as many
\* observations as before.
C2_UnratedRunIsNoOp ==
  /\ \A b \in BeanIds, m \in MachineIds, pv \in ParamValueMaps :
       updateWithRun(boStore, machines, config, now, b, m,
                     [parameterValues |-> pv, rating |-> NoRating]).store = boStore
  /\ (last.op = "updateWithRun" /\ last.ret = "unrated") =>
       countBefore(boStore, last.beanId, last.machineId) = last.before

\* an unrated run was handed in for a pair without state on a machine that has
\* optimizable parameters, while another pair has a state
C2_Witness ==
  /\ last.op = "updateWithRun"
  /\ last.ret = "unrated"
  /\ last.before = -1
  /\ Has(machines, last.machineId)
  /\ Len(getOptimizableParameters(machines[last.machineId])) > 0
  /\ boStore # <<>>

\* C3: for a machine whose parameters are all free text, or that has none,
\* and for every bean: no state is stored for the pair, initializeOptimizer
\* returns false and writes nothing, updateWithRun with a rated run returns
\* the store unchanged, and suggestParameters returns null.
C3_NoOptimizableParametersNoState ==
  \A m \in DOMAIN machines :
    (\A i \in 1..Len(machines[m]) : machines[m][i].type = TEXT) =>
      \A b \in BeanIds :
        LET init == initializeOptimizer(boStore, machines, config, now, b, m)
        IN /\ ~Has(boStore, makeKey(b, m))
           /\ init.ret = "false"
           /\ init.store = boStore
           /\ \A pv \in ParamValueMaps, rating \in Ratings \ {NoRating} :
                updateWithRun(boStore, machines, config, now, b, m,
                              [parameterValues |-> pv, rating |-> rating]).store
                  = boStore
           /\ suggestParametersNoData(boStore, machines, b, m)

\* a rated run was handed in for a pair on the text-only machine while the
\* other machine's pairs hold states
C3_Witness ==
  /\ last.op = "updateWithRun"
  /\ last.ret = "notInitialized"
  /\ Has(machines, last.machineId)
  /\ machines[last.machineId] = SchemaText
  /\ boStore # <<>>

\* C4: updateWithRun with a rated run that has no value for at least one
\* optimizable parameter of the machine returns the store it was given,
\* whether or not the pair had a state.
C4_RejectedRunLeavesStore ==
  \A b \in BeanIds, m \in DOMAIN machines :
    \A pv \in ParamValueMaps, rating \in Ratings \ {NoRating} :
      (\E i \in 1..Len(machines[m]) :
          machines[m][i].type # TEXT /\ ~Has(pv, machines[m][i].id))
        => updateWithRun(boStore, machines, config, now, b, m,
                         [parameterValues |-> pv, rating |-> rating]).store
             = boStore

\* C5: initializeOptimizer on a machine that exists and has a non-text
\* parameter returns true and changes the pair's entry only, to a state with
\* no observations, the machine's non-text parameters in declared order as
\* metadata and the config's three kernel values; on a machine that does not
\* exist it throws and returns the store unchanged.
C5_InitializeWritesFreshState ==
  /\ \A b \in BeanIds, m \in MachineIds :
       LET res == initializeOptimizer(boStore, machines, config, now, b, m)
           key == makeKey(b, m)
       IN IF ~Has(machines, m)
          THEN res.ret = "throw" /\ res.store = boStore
          ELSE LET nonText == SelectSeq(machines[m], LAMBDA p : p.type # TEXT)
               IN Len(nonText) >= 1 =>
                    /\ res.ret = "true"
                    /\ DOMAIN res.store = (DOMAIN boStore) \cup {key}
                    /\ \A k \in (DOMAIN boStore) \ {key} : res.store[k] = boStore[k]
                    /\ res.store[key].observations = <<>>
                    /\ res.store[key].parameterMetadata = nonText
                    /\ res.store[key].gpHyperparameters =
                         [ lengthScale |-> config.kernelLengthScale,
                           outputScale |-> config.kernelOutputScale,
                           noise |-> config.kernelNoise ]
  /\ (last.op = "initializeOptimizer" /\ last.ret = "true") =>
       /\ Has(boStore, makeKey(last.beanId, last.machineId))
       /\ boStore[makeKey(last.beanId, last.machineId)].observations = <<>>
       /\ boStore[makeKey(last.beanId, last.machineId)].gpHyperparameters.lengthScale
            = config.kernelLengthScale
  /\ (last.op = "initializeOptimizer" /\ last.ret = "throw") =>
       countBefore(boStore, last.beanId, last.machineId) = last.before

\* initializeOptimizer returned true on a pair whose state held observations,
\* under a length scale that is not the default
C5_Witness ==
  /\ last.op = "initializeOptimizer"
  /\ last.ret = "true"
  /\ last.before >= 1
  /\ config.kernelLengthScale = 5
  /\ boStore[makeKey(last.beanId, last.machineId)].observations = <<>>
C10_ClearIdempotentNoTrace ==
  \A b \in BeanIds, m \in MachineIds :
    LET key == makeKey(b, m)
        once == clearOptimizer(boStore, b, m)
        init == initializeOptimizer(boStore, machines, config, now, b, m)
        back == clearOptimizer(init.store, b, m)
    IN /\ clearOptimizer(once, b, m) = once
       /\ DOMAIN once = (DOMAIN boStore) \ {key}
       /\ \A k \in DOMAIN once : once[k] = boStore[k]
       /\ ~Has(boStore, key) =>
            /\ back = boStore
            /\ ~Has(back, key)
            /\ getObservationCount(back, b, m) = 0
            /\ ~isReady(back, config, b, m)

\* clearOptimizer was called for a pair that had no state (a second clear, or
\* a clear of a pair never initialised) while other pairs hold states
C10_Witness ==
  /\ last.op = "clearOptimizer"
  /\ last.before = -1
  /\ boStore # <<>>
  /\ ~Has(boStore, makeKey(last.beanId, last.machineId))
\* C6: when MachineRepository.update has returned for machine M, no bean has
\* a state for (bean, M); and an updateWithRun that follows for (bean, M)
\* with a rated run carrying a value for every non-text parameter of the
\* updated machine ingests it into a state whose metadata is the updated
\* machine's non-text parameters.
C6_MachineUpdateDestroysStates ==
  (last.op = "MachineRepository.update" /\ last.ret = "ok") =>
    \A b \in BeanIds :
      /\ ~Has(boStore, makeKey(b, last.machineId))
      /\ \A pv \in ParamValueMaps, rating \in Ratings \ {NoRating} :
           LET m == last.machineId
               nonText == SelectSeq(machines[m], LAMBDA p : p.type # TEXT)
               res == updateWithRun(boStore, machines, config, now, b, m,
                                    [parameterValues |-> pv, rating |-> rating])
           IN (/\ Len(nonText) >= 1
               /\ \A i \in 1..Len(nonText) : Has(pv, nonText[i].id)) =>
                 /\ res.outcome = "appended"
                 /\ res.created
                 /\ res.store[makeKey(b, m)].parameterMetadata = nonText
                 /\ Len(res.store[makeKey(b, m)].observations) = 1

\* the machine's schema went from slider, text and number to the slider alone
\* while both beans had a state for it
C6_Witness ==
  /\ last.op = "MachineRepository.update"
  /\ last.ret = "ok"
  /\ last.before = Cardinality(BeanIds)
  /\ machines[last.machineId] = SchemaSlider

\* C7: when BeanRepository.delete(B) has returned, no machine has a state
\* for (B, machine), whatever runs were created, updated and deleted before.
C7_BeanDeleteDestroysStates ==
  (last.op = "BeanRepository.delete" /\ last.ret = "ok") =>
    \A m \in MachineIds : ~Has(boStore, makeKey(last.beanId, m))

\* C8 as stated: after RunRepository.delete of a rated run the pair's
\* observation count is the number of its remaining rated runs, capped at
\* maxObservations, and isReady compares that count with minRunsThreshold.
C8_DeleteRebuildsFromRatedRuns ==
  (last.op = "RunRepository.delete" /\ last.ret = "rebuilt") =>
    LET b == last.beanId
        m == last.machineId
        rated == { i \in 1..Len(runs) :
                     /\ runs[i].beanId = b /\ runs[i].machineId = m
                     /\ runs[i].rating # NoRating }
        count == getObservationCount(boStore, b, m)
    IN /\ count = Min(Cardinality(rated), config.maxObservations)
       /\ isReady(boStore, config, b, m) <=> (count >= config.minRunsThreshold)

\* C8, amended: after RunRepository.delete of a rated run the pair's
\* observation count is the number of its remaining rated runs that carry a
\* value for every non-text parameter of the machine as it is now, capped at
\* maxObservations (0 when the machine is gone or has no such parameter), and
\* isReady compares that count with minRunsThreshold.
C8_DeleteRebuildsFromUsableRuns ==
  (last.op = "RunRepository.delete" /\ last.ret = "rebuilt") =>
    LET b == last.beanId
        m == last.machineId
        nonText == IF Has(machines, m)
                   THEN SelectSeq(machines[m], LAMBDA p : p.type # TEXT)
                   ELSE <<>>
        usable == { i \in 1..Len(runs) :
                      /\ runs[i].beanId = b /\ runs[i].machineId = m
                      /\ runs[i].rating # NoRating
                      /\ \A j \in 1..Len(nonText) :
                           Has(runs[i].parameterValues, nonText[j].id) }
        count == getObservationCount(boStore, b, m)
    IN /\ count = IF Len(nonText) = 0 THEN 0
                  ELSE Min(Cardinality(usable), config.maxObservations)
       /\ Len(nonText) = 0 => ~Has(boStore, makeKey(b, m))
       /\ isReady(boStore, config, b, m) <=> (count >= config.minRunsThreshold)

\* a pair that was ready with as many observations as the threshold lost one
\* rated run and is left with one observation less, not ready
C8_Witness ==
  /\ last.op = "RunRepository.delete"
  /\ last.ret = "rebuilt"
  /\ config.minRunsThreshold = MaxThresholdCfg
  /\ last.before = MaxThresholdCfg
  /\ getObservationCount(boStore, last.beanId, last.machineId) = MaxThresholdCfg - 1
  /\ ~isReady(boStore, config, last.beanId, last.machineId)
\* C11: clearOptimizersForMachine(M) applied to the store leaves, for every
\* bean B, no state for (B, M), getObservationCount 0 and isReady false; and
\* when the call has just returned, an updateWithRun for (B, M) with a rated
\* run that carries a value for every non-text parameter creates a state
\* with the machine's current metadata and exactly one observation.
C11_MachineClearRemovesEveryState ==
  /\ \A m \in MachineIds, b \in BeanIds :
       LET cleared == clearOptimizersForMachine(boStore, m)
       IN /\ ~Has(cleared, makeKey(b, m))
          /\ getObservationCount(cleared, b, m) = 0
          /\ ~isReady(cleared, config, b, m)
  /\ last.op = "clearOptimizersForMachine" =>
       \A b \in BeanIds :
         LET m == last.machineId
             key == makeKey(b, m)
         IN /\ getObservationCount(boStore, b, m) = 0
            /\ ~isReady(boStore, config, b, m)
            /\ \A pv \in ParamValueMaps, rating \in Ratings \ {NoRating} :
                 LET nonText == IF Has(machines, m)
                                THEN SelectSeq(machines[m], LAMBDA p : p.type # TEXT)
                                ELSE <<>>
                     res == updateWithRun(boStore, machines, config, now, b, m,
                                          [parameterValues |-> pv, rating |-> rating])
                 IN (/\ Len(nonText) >= 1
                     /\ \A i \in 1..Len(nonText) : Has(pv, nonText[i].id)) =>
                       /\ res.created
                       /\ res.store[key].parameterMetadata = nonText
                       /\ Len(res.store[key].observations) = 1
                       /\ res.store[key].observations[1].rating
                            = Frac(rating[1] - 1, 9)

\* clearOptimizersForMachine returned for a machine that both beans had a
\* state for
C11_Witness ==
  /\ last.op = "clearOptimizersForMachine"
  /\ last.before = Cardinality(BeanIds)
  /\ \A b \in BeanIds : ~Has(boStore, makeKey(b, last.machineId))
\* C12: with config and machine schema unchanged, the observation list a
\* pair has after its rated runs were ingested one by one equals the list it
\* has after clearOptimizer and ingesting the same runs again in the same
\* order (a pair without state has none afterwards either).
C12_RebuildEquivalence ==
  \A b \in BeanIds, m \in MachineIds :
    LET key == makeKey(b, m)
        S == SelectSeq(runs, LAMBDA r : r.beanId = b /\ r.machineId = m)
        again == ingestAll(clearOptimizer(boStore, b, m), machines, config, now, S)
    IN /\ Has(again, key) <=> Has(boStore, key)
       /\ Has(boStore, key) =>
            again[key].observations = boStore[key].observations

\* three rated runs with two different values of the number parameter went
\* into a list capped at two, whose normalised number values differ
C12_Witness ==
  /\ Len(runs) = MaxRuns
  /\ \A i \in 1..Len(runs) : runs[i].rating # NoRating
  /\ config.maxObservations = MaxObsCfg
  /\ \E key \in DOMAIN boStore :
       LET obs == boStore[key].observations
       IN /\ Len(obs) = MaxObsCfg
          /\ obs[1].rawValues["p2"] # obs[2].rawValues["p2"]
          /\ obs[1].parameters # obs[2].parameters
\* C13: neither suggestParameters nor getPredictionCurve raises to its
\* caller, whatever the stores hold and whatever paramIndex is passed.
C13_ReadsNeverRaise ==
  /\ \A b \in BeanIds, m \in MachineIds, paramIndex \in ParamIndices :
       getPredictionCurve(boStore, machines, b, m, paramIndex) # "throw"
  /\ last.op \in {"suggestParameters", "getPredictionCurve"} => last.ret # "throw"

\* C14: a writing call during which the store rejects the write ends in a
\* storage error for its caller, and the persisted records (BO states, config
\* record) are what they were before the call.
C14_RejectedWriteSurfaces ==
  /\ [](last.writeRejected => last.ret = "storageError")
  /\ [][(SetConfigRejected \/ InitializeOptimizerRejected \/ UpdateWithRunRejected)
          => (boStore' = boStore /\ savedConfig' = savedConfig)]_vars

\* C15: a repository operation whose cascading clear fails still returns
\* normally, and its own change is in the entity stores: the machine carries
\* valid new parameters, the deleted run, or every run of the deleted bean or
\* machine, is gone, and so is the deleted bean or machine.
C15_CascadeIsBestEffort ==
  /\ [](last.writeRejected => last.ret = "ok")
  /\ [][MachineUpdateClearFails =>
          \E parameters \in Schemas :
             machines' = [machines EXCEPT ![last'.machineId] = parameters]]_vars
  /\ [][MachineDeleteClearFails =>
          /\ ~Has(machines', last'.machineId)
          /\ \A i \in 1..Len(runs') : runs'[i].machineId # last'.machineId
          /\ Len(runs') < Len(runs)]_vars
  /\ [][BeanDeleteClearFails =>
          /\ last'.beanId \notin beans'
          /\ \A i \in 1..Len(runs') : runs'[i].beanId # last'.beanId
          /\ Len(runs') < Len(runs)]_vars
  /\ [][RunDeleteClearFails =>
          /\ Len(runs') = Len(runs) - 1
          /\ \E id \in RunIds :
                /\ \E i \in 1..Len(runs) : runs[i].id = id
                /\ \A i \in 1..Len(runs') : runs'[i].id # id]_vars

\* a machine update went through although the states of the machine could not
\* be cleared: they are still stored
C15_Witness ==
  /\ last.op = "MachineRepository.update"
  /\ last.writeRejected
  /\ last.ret = "ok"
  /\ last.before > 0
  /\ statesOfMachine(boStore, last.machineId) = last.before

\* C17: a state's gpHyperparameters are the kernel values of the config at
\* the step that created it (initializeOptimizer, or updateWithRun for a pair
\* without state); no other step, setConfig and later updateWithRun calls
\* included, changes the gpHyperparameters of a state it leaves in the store.
C17_HyperparametersCaptured ==
  [][\A key \in DOMAIN boStore' :
       LET created == \/ key \notin DOMAIN boStore
                      \/ /\ last'.op = "initializeOptimizer"
                         /\ last'.ret = "true"
                         /\ makeKey(last'.beanId, last'.machineId) = key
       IN IF created
          THEN boStore'[key].gpHyperparameters =
                 [ lengthScale |-> config.kernelLengthScale,
                   outputScale |-> config.kernelOutputScale,
                   noise |-> config.kernelNoise ]
          ELSE boStore'[key].gpHyperparameters = boStore[key].gpHyperparameters]_vars

\* after a setConfig changed the length scale: an older state took one more
\* observation and kept its value, next to a state created with the new one
C17_Witness ==
  /\ last.op = "updateWithRun"
  /\ last.ret = "appended"
  /\ last.before > 0
  /\ \E k1 \in DOMAIN boStore, k2 \in DOMAIN boStore :
       /\ k1 = makeKey(last.beanId, last.machineId)
       /\ boStore[k1].gpHyperparameters.lengthScale # config.kernelLengthScale
       /\ boStore[k2].gpHyperparameters.lengthScale = config.kernelLengthScale

\* C18: setConfig(patch) leaves a config that has the patch's value under
\* every key of the patch and the previous value under every other key, and
\* the persisted record equals it; getConfig returns that config; assigning
\* to the returned object changes neither the service's config nor the
\* persisted record.
C18_SetConfigMergesGetConfigCopies ==
  /\ [](\A updates \in ConfigUpdates :
          LET res == setConfig(config, savedConfig, updates, TRUE)
          IN /\ DOMAIN res.config = DOMAIN config
             /\ \A k \in DOMAIN config :
                  res.config[k] = IF k \in DOMAIN updates THEN updates[k] ELSE config[k]
             /\ res.saved = res.config
             /\ getConfig(res.config).object = res.config)
  /\ [](last.op = "setConfig" => savedConfig = config)
  /\ [](last.op = "getConfig" => snapshot.object = config)
  /\ [][MutateSnapshot => (config' = config /\ savedConfig' = savedConfig)]_vars

\* after a setConfig that lowered the threshold, the caller changed the
\* object it got from getConfig and the config did not follow
C18_Witness ==
  /\ last.op = "mutateSnapshot"
  /\ config.minRunsThreshold # MaxThresholdCfg
  /\ snapshot.object # config
  /\ savedConfig = config

C20_StoredRatingsInRange ==
  /\ \A key \in DOMAIN boStore :
       \A i \in 1..Len(boStore[key].observations) :
         LET r == boStore[key].observations[i].rating
         IN /\ 9 * r[1] + r[2] >= r[2]
            /\ 9 * r[1] + r[2] <= 10 * r[2]
  /\ \A b \in BeanIds, m \in MachineIds, pv \in ParamValueMaps :
       \A rating \in {x \in AnyRatings \ {NoRating} : x[1] < 1 \/ x[1] > 10} :
         updateWithRun(boStore, machines, config, now, b, m,
                       [parameterValues |-> pv, rating |-> rating]).outcome # "appended"

InUnit(f) == f[1] >= 0 /\ f[1] <= f[2]

C22_DimensionInvariant ==
  /\ [](\A key \in DOMAIN boStore :
          \A i \in 1..Len(boStore[key].observations) :
            /\ Len(boStore[key].observations[i].parameters)
                 = Len(boStore[key].parameterMetadata)
            /\ DOMAIN boStore[key].observations[i].rawValues
                 = {boStore[key].parameterMetadata[j].id :
                      j \in 1..Len(boStore[key].parameterMetadata)})
  /\ [][\A key \in DOMAIN boStore' :
          IF key \in DOMAIN boStore
          THEN last'.op \in {"updateWithRun", "RunRepository.create"}
                 => boStore'[key].parameterMetadata = boStore[key].parameterMetadata
          ELSE /\ key = makeKey(last'.beanId, last'.machineId)
               /\ boStore'[key].parameterMetadata
                    = getOptimizableParameters(machines[last'.machineId])]_vars

\* a state created when the machine had one optimizable parameter took a
\* second observation after the machine got two: its vectors have length one
C22_Witness ==
  /\ last.op = "RunRepository.create"
  /\ last.before = 1
  /\ Has(machines, last.machineId)
  /\ Len(getOptimizableParameters(machines[last.machineId])) = 2
  /\ Has(boStore, makeKey(last.beanId, last.machineId))
  /\ LET state == boStore[makeKey(last.beanId, last.machineId)]
     IN /\ Len(state.parameterMetadata) = 1
        /\ Len(state.observations) = 2
        /\ Len(state.observations[2].parameters) = 1
\* the ordinal half of C23: every option decodes back to itself, a single
\* option encodes to 0, and so does a value that is no option
DropdownRoundTrip ==
  \A param \in {p \in CodecParams : p.type = DROPDOWN} :
    \A value \in CodecValues(param) :
      IF \E i \in 1..Len(param.options) : param.options[i] = value
      THEN /\ roundTrip(value, param, <<>>, config) = value
           /\ Len(param.options) = 1
                => normalizeParameter(value, param, <<>>, config) = Frac(0, 1)
      ELSE normalizeParameter(value, param, <<>>, config) = Frac(0, 1)

\* C23 as stated, the step grid of a slider being the values its input can
\* take, min + k * step: every such value within [min, max] decodes back to
\* itself, and so does every dropdown option.
C23_RoundTripOnSliderGrid ==
  /\ DropdownRoundTrip
  /\ \A param \in {p \in CodecParams : p.type = SLIDER} :
       \A value \in CodecValues(param) :
         (value - param.min) % param.step = 0
           => roundTrip(value, param, <<>>, config) = value

\* C23, amended: a slider value within [min, max] that is a multiple of step
\* decodes back to itself; every dropdown option decodes back to itself, a
\* single option and an unknown value encode to 0.
C23_RoundTripOnMultiplesOfStep ==
  /\ DropdownRoundTrip
  /\ \A param \in {p \in CodecParams : p.type = SLIDER} :
       \A value \in CodecValues(param) :
         value % param.step = 0 => roundTrip(value, param, <<>>, config) = value
  /\ last.op = "roundTrip" =>
       /\ last.ret.decoded = roundTrip(last.ret.value, last.ret.param, <<>>, config)
       /\ (last.ret.param.type = SLIDER /\ last.ret.value % last.ret.param.step = 0)
            => last.ret.decoded = last.ret.value

\* the value 4 of the slider 1..9 with step 2, a multiple of the step that
\* the slider's own input cannot produce, went through encode and decode
C23_Witness ==
  /\ last.op = "roundTrip"
  /\ last.ret.param = PSliderOffset
  /\ last.ret.value = 4
  /\ last.ret.encoded = Frac(3, 8)
  /\ last.ret.decoded = 4
\* C24: on empty arrays findMaxUCB throws; otherwise it returns an index
\* whose UCB value, mean + exploration * sqrt(max(0, variance)), no other
\* candidate exceeds and no candidate of lower index reaches.
C24_FindMaxUCBLowestMaximiser ==
  last.op = "findMaxUCB" =>
    LET means == last.ret.means
        variances == last.ret.variances
        value(j) == means[j + 1]
                      + last.ret.exploration * Sqrt(IF variances[j + 1] > 0
                                                    THEN variances[j + 1] ELSE 0)
        i == last.ret.result
    IN IF Len(means) = 0 THEN i = "throw"
       ELSE /\ i \in 0..(Len(means) - 1)
            /\ \A j \in 0..(Len(means) - 1) : value(j) <= value(i)
            /\ \A j \in 0..(i - 1) : value(j) < value(i)

\* three candidates of which the last two tie for the maximum, one through
\* its mean and one through its variance: the middle one was returned
C24_Witness ==
  /\ last.op = "findMaxUCB"
  /\ last.ret.means = <<0, 2, 0>>
  /\ last.ret.variances = <<-1, 0, 4>>
  /\ last.ret.exploration = 1
  /\ last.ret.result = 1

\* C25: GP call protocol. predict on a GP whose fit never got past its
\* input checks fails with the state error; fit with N = 0 or |X| # |y| fails
\* with invalid-input and leaves the object as it was; otherwise fit attempts
\* the Cholesky decomposition once, and when that fails the positive-definite
\* test, once more with jitter on the diagonal: the second attempt's failure
\* reaches the caller, its success caches the inverse of the jittered matrix.
C25_GPCallProtocol ==
  /\ [](last.op = "predict" /\ gp.X_train = <<>> => last.ret = "stateError")
  /\ [][ last'.op = "fit" /\ (last'.before.n = 0 \/ last'.before.n # last'.before.m)
           => last'.ret = "invalidInput" /\ last'.before.attempts = 0 /\ gp' = gp ]_vars
  /\ [](last.op = "fit" /\ last.before.n > 0 /\ last.before.n = last.before.m =>
         LET N == last.before.n
             first == choleskyThrows(N, kernelMatrix(gp.outputScale, gp.noise, 0))
             second == choleskyThrows(N, kernelMatrix(gp.outputScale, gp.noise, 1))
         IN /\ last.before.attempts = IF first THEN 2 ELSE 1
            /\ last.ret = IF first /\ second THEN "notPositiveDefinite" ELSE "ok"
            /\ last.ret = "ok" =>
                 gp.K_inv = << kernelMatrix(gp.outputScale, gp.noise,
                                            IF first THEN 1 ELSE 0) >>)

\* a fit of two equal points without noise succeeds on its second attempt
C25_Witness ==
  /\ last.op = "fit"
  /\ last.ret = "ok"
  /\ last.before.attempts = 2
  /\ last.before.n = 2
  /\ gp.outputScale = 10
  /\ gp.noise = 0
  /\ gp.K_inv = <<[diag |-> 101, off |-> 100]>>

C27_HistoryConsistency ==
  \A b \in BeanIds, m \in DOMAIN machines :
    LET nonText == SelectSeq(machines[m], LAMBDA p : p.type # TEXT)
        ofPair == { i \in 1..Len(runs) : runs[i].beanId = b /\ runs[i].machineId = m }
        rated == { i \in ofPair : runs[i].rating # NoRating }
    IN (\A i \in ofPair : \A j \in 1..Len(nonText) :
          Has(runs[i].parameterValues, nonText[j].id))
       => getObservationCount(boStore, b, m)
            = Min(Cardinality(rated), config.maxObservations)

\* C28: for a pair whose machine has only slider and dropdown parameters
\* besides text, after RunRepository.delete of a rated run the pair's
\* observation list is the observations of the remaining rated runs in the
\* order the runs were created, oldest first, and when more than
\* maxObservations remain, those of the most recent runs.
C28_RebuildPreservesChronology ==
  ( /\ last.op = "RunRepository.delete"
    /\ last.ret = "rebuilt"
    /\ Has(machines, last.machineId)
    /\ Has(boStore, makeKey(last.beanId, last.machineId)) ) =>
    LET b == last.beanId
        m == last.machineId
        state == boStore[makeKey(b, m)]
        remaining == SelectSeq(runs, LAMBDA r : /\ r.beanId = b /\ r.machineId = m
                                                /\ r.rating # NoRating)
        obsOf(r) == runToObservation(r, machines[m], state.parameterMetadata,
                                     state, config)
        inOrder == [i \in 1..Len(remaining) |-> obsOf(remaining[i])[1]]
    IN ( /\ \A i \in 1..Len(machines[m]) : machines[m][i].type # NUMBER
         /\ \A i \in 1..Len(remaining) : obsOf(remaining[i]) # <<>> )
       => state.observations = capObservations(inOrder, config.maxObservations)

\* C29: per-pair isolation. updateWithRun, initializeOptimizer and
\* clearOptimizer on a pair (b, m) leave the state of every other pair of a
\* stored bean and a stored machine as it was, and clearOptimizersForMachine(m)
\* leaves the state of every pair with another machine as it was, whatever
\* the ids are; and two distinct pairs have distinct keys.
C29_PerPairIsolation ==
  /\ [](\A b1 \in beans, b2 \in beans, m1 \in DOMAIN machines, m2 \in DOMAIN machines :
          (<<b1, m1>> # <<b2, m2>> /\ Has(boStore, makeKey(b1, m1)))
            => makeKey(b1, m1) # makeKey(b2, m2))
  /\ [][ \A b \in beans, m \in DOMAIN machines :
           LET key == makeKey(b, m)
               untouched == /\ Has(boStore', key) <=> Has(boStore, key)
                            /\ Has(boStore, key) =>
                                 boStore'[key].observations = boStore[key].observations
           IN /\ ( /\ last'.op \in {"updateWithRun", "initializeOptimizer", "clearOptimizer"}
                    /\ <<b, m>> # <<last'.beanId, last'.machineId>> ) => untouched
              /\ ( /\ last'.op = "clearOptimizersForMachine"
                    /\ m # last'.machineId ) => untouched ]_vars

\* C30: in every state reached by updateWithRun calls, for every number
\* parameter and any two stored observations of a pair, the one with the
\* smaller raw value has the smaller stored normalized component, and equal
\* raw values have equal stored components.
C30_RescalingPreservesOrder ==
  \A key \in DOMAIN boStore :
    LET obs == boStore[key].observations
        metadata == boStore[key].parameterMetadata
    IN \A j \in 1..Len(metadata) :
         metadata[j].type = NUMBER =>
           \A a \in 1..Len(obs), b \in 1..Len(obs) :
             LET rawA == obs[a].rawValues[metadata[j].id]
                 rawB == obs[b].rawValues[metadata[j].id]
                 normA == obs[a].parameters[j]
                 normB == obs[b].parameters[j]
             IN /\ rawA < rawB => normA[1] * normB[2] < normB[1] * normA[2]
                /\ rawA = rawB => normA = normB

====
